---- MODULE Spec2Model ----
(***************************************************************************)
(* Model of the storefront's client-side state layer:                      *)
(*   - ProductsService (src/app/core/services/products.service.ts): the    *)
(*     signal-backed entity store, its remote operations, the filter and   *)
(*     sort controls and the derived view (filteredProducts, categories);  *)
(*   - HttpCacheService / httpCacheInterceptor: the response cache;        *)
(*   - CartService: the carts and the line items of the current cart.      *)
(*   - ProductsListComponent and CartComponent: the debounced search box,  *)
(*     the edit form and its effects, the default cart of the cart page.   *)
(* Remote calls are asynchronous: an operation's invocation and the        *)
(* settlement of its observable are separate steps, and any pending call   *)
(* may settle next (HttpClient never cancels or reorders on its own).      *)
(***************************************************************************)
EXTENDS Integers, Sequences, FiniteSets, TLC

VARIABLES
  products,        \* ProductsService.products        signal<Product[]>
  loading,         \* ProductsService.loading         signal<boolean>
  error,           \* ProductsService.error           signal<string | null>
  currentProduct,  \* ProductsService.currentProduct  signal<Product | null>
  productLoading,  \* ProductsService.productLoading  signal<boolean>
  productError,    \* ProductsService.productError    signal<string | null>
  inflight,        \* subscriptions of ProductsService whose remote call has not settled, oldest first
  nOps,            \* number of store operations invoked so far
  log,             \* history: the previous and the last settlement, or the calls of a handler, oldest first
  cache,           \* HttpCacheService.cache      Map<string, CacheEntry>
  now,             \* Date.now()
  ret,             \* the last call made on HttpCacheService and what it returned
  nCalls,          \* number of direct calls on HttpCacheService, or of requests intercepted, so far
  http,            \* requests the interceptor has handed to next(req), not yet answered
  delivered,       \* the last response the interceptor emitted to its caller
  served,          \* history: the GET requests the remote has answered with status 200
  carts,           \* CartService.carts        signal<Cart[]>
  cartsLoading,    \* CartService.loading      signal<boolean>
  cartsError,      \* CartService.error        signal<string | null>
  currentCart,     \* CartService.currentCart  signal<Cart | null>
  cartLoading,     \* CartService.cartLoading  signal<boolean>
  cartError,       \* CartService.cartError    signal<string | null>
  cartAlias,       \* the positions of carts that hold the very object currentCart holds
  cartInflight,    \* subscriptions of CartService whose remote call has not settled, oldest first
  nCartOps,        \* number of remote calls CartService has made so far
  searchTerm,      \* ProductsService.searchTerm        signal<string>, a string is its characters
  selectedCategory,\* ProductsService.selectedCategory  signal<string>
  minPrice,        \* ProductsService.minPrice          signal<number>
  maxPrice,        \* ProductsService.maxPrice          signal<number>
  sortBy,          \* ProductsService.sortBy            signal<SortField>
  sortOrder,       \* ProductsService.sortOrder         signal<SortOrder>
  isEditMode,      \* ProductsListComponent.isEditMode  signal<boolean>
  isCreating,      \* ProductsListComponent.isCreating  signal<boolean>
  searchTimer,     \* ProductsListComponent._searchTimer: a timeout's handle, 0 while undefined
  timers,          \* the timeouts set with setTimeout whose callback has not run and that are not cleared
  selectedCartId   \* CartComponent.selectedCartId      signal<number | null>: <<>> for null, <<id>> for an id

storeVars == <<products, loading, error, currentProduct, productLoading, productError,
               inflight, nOps>>

cacheVars == <<cache, now, ret, nCalls, http, delivered, served>>

cartVars == <<carts, cartsLoading, cartsError, currentCart, cartLoading, cartError,
              cartAlias, cartInflight, nCartOps>>

filterVars == <<searchTerm, selectedCategory, minPrice, maxPrice, sortBy, sortOrder>>

\* the state of the pages' components
pageVars == <<isEditMode, isCreating, searchTimer, timers, selectedCartId>>

vars == <<products, loading, error, currentProduct, productLoading, productError,
          inflight, nOps, log, cache, now, ret, nCalls, http, delivered, served,
          carts, cartsLoading, cartsError, currentCart, cartLoading, cartError,
          cartAlias, cartInflight, nCartOps,
          searchTerm, selectedCategory, minPrice, maxPrice, sortBy, sortOrder,
          isEditMode, isCreating, searchTimer, timers, selectedCartId>>

-----------------------------------------------------------------------------
(* Bounds of the model *)

MaxId == 2
MaxPrice == 2
MaxList == 1
MaxOps == 2
MaxTtl == 1
MaxSkew == 1
MaxBody == 1
MaxCalls == 2
MaxReqs == 2

-----------------------------------------------------------------------------
(* Values *)

\* JavaScript null
Null == [null |-> TRUE]

\* Product (products.service.ts:196-207): the identifier and one attribute standing
\* for the rest of the record.
Ids == 1..MaxId
Product == [id : Ids, price : 1..MaxPrice]

\* what the remote can answer a list read with
RECURSIVE SeqsUpTo(_, _)
SeqsUpTo(S, n) ==
  IF n = 0 THEN {<<>>}
  ELSE LET shorter == SeqsUpTo(S, n - 1)
       IN  shorter \cup {Append(s, x) : s \in {t \in shorter : Len(t) = n - 1}, x \in S}

ProductLists == SeqsUpTo(Product, MaxList)

\* A failed remote call: an HttpErrorResponse carries a status (0: no connection
\* reached), any other thrown value carries none.
Statuses == {0, 500}
Failures == [status : Statuses] \cup {[message |-> "thrown"]}

\* if (data): an entity is truthy, null is not
Truthy(data) == data # Null

\* Message texts are the pieces of the template string that builds them: a fixed
\* text alone, or a fixed text followed by the id that is interpolated into it.
Plain(text) == <<text>>
WithId(text, id) == <<text, id>>

\* faulty variant of getErrorMessage: status 0 is reported like any other status
getErrorMessageNoNetworkCase(err, defaultMsg) ==
  IF "status" \in DOMAIN err
    THEN [text |-> defaultMsg, status |-> err.status]
    ELSE [text |-> defaultMsg]

\* #getErrorMessage(err, defaultMsg)
getErrorMessage(err, defaultMsg) ==
  IF "status" \in DOMAIN err
    THEN IF err.status = 0
           THEN [text |-> Plain("Network error. Please check your connection.")]
           ELSE [text |-> defaultMsg, status |-> err.status]
    ELSE [text |-> defaultMsg]

-----------------------------------------------------------------------------
(* Initial state: the signals' initial values *)

\* every signal but the collection
InitRest ==
  /\ loading = FALSE
  /\ error = Null
  /\ currentProduct = Null
  /\ productLoading = FALSE
  /\ productError = Null
  /\ inflight = <<>>
  /\ nOps = 0
  /\ log = <<>>
  /\ cache = <<>>
  /\ now = 0
  /\ ret = [op |-> "none"]
  /\ nCalls = 0
  /\ http = <<>>
  /\ delivered = [from |-> "none"]
  /\ served = {}
  /\ carts = <<>>
  /\ cartsLoading = FALSE
  /\ cartsError = Null
  /\ currentCart = Null
  /\ cartLoading = FALSE
  /\ cartError = Null
  /\ cartAlias = {}
  /\ cartInflight = <<>>
  /\ nCartOps = 0
  /\ searchTerm = <<>>
  /\ selectedCategory = ""
  /\ minPrice = 0
  /\ maxPrice = 10000
  /\ sortBy = "name"
  /\ sortOrder = "asc"
  /\ isEditMode = FALSE
  /\ isCreating = FALSE
  /\ searchTimer = 0
  /\ timers = {}
  /\ selectedCartId = <<>>

Init ==
  /\ products = <<>>
  /\ InitRest

-----------------------------------------------------------------------------
(* Helpers for the pending calls *)

RemoveAt(s, i) == [j \in 1..(Len(s) - 1) |-> IF j < i THEN s[j] ELSE s[j + 1]]

CanInvoke == nOps < MaxOps

\* An operation of a service as a component's handler calls it is named ...Call:
\* the handler's own state, the history and the bound on the number of
\* operations are the caller's to state.
IssueCall(req) ==
  /\ inflight' = Append(inflight, req)
  /\ nOps' = nOps + 1
  /\ UNCHANGED cacheVars
  /\ UNCHANGED cartVars
  /\ UNCHANGED filterVars

Issue(req) ==
  /\ IssueCall(req)
  /\ log' = log
  /\ UNCHANGED pageVars

\* faulty variant of Settled: the call is made again when it settles (retry)
SettledResubscribed(i) ==
  /\ inflight' = Append(RemoveAt(inflight, i), inflight[i])
  /\ nOps' = nOps
  /\ UNCHANGED cacheVars
  /\ UNCHANGED cartVars
  /\ UNCHANGED <<filterVars, pageVars>>

\* the subscription completes with its one emission: no retry, repeat or
\* resubscription stands in any of the pipes
Settled(i) ==
  /\ inflight' = RemoveAt(inflight, i)
  /\ nOps' = nOps
  /\ UNCHANGED cacheVars
  /\ UNCHANGED cartVars
  /\ UNCHANGED <<filterVars, pageVars>>

-----------------------------------------------------------------------------
(* Responses of the remote *)

Ok(body) == [ok |-> TRUE, body |-> body]
Fail(err) == [ok |-> FALSE, err |-> err]

\* list(): any list of entities, or a failure
ListResponses == {Ok(l) : l \in ProductLists} \cup {Fail(e) : e \in Failures}
\* getById / create / update: any entity, or a failure
EntityResponses == {Ok(p) : p \in Product} \cup {Fail(e) : e \in Failures}
\* remove: delete<void>, the body is not looked at
VoidResponses == {Ok(Null)} \cup {Fail(e) : e \in Failures}

\* pipe(catchError(...)): what reaches subscribe's next callback. A success passes
\* its body on; a failure is replaced by the handler's fallback observable.
Recovered(resp, fallback) == IF resp.ok THEN resp.body ELSE fallback

\* the error signal after the catchError handler (it runs on a failure only)
Caught(resp, signalNow, defaultMsg) ==
  IF resp.ok THEN signalNow ELSE getErrorMessage(resp.err, defaultMsg)

-----------------------------------------------------------------------------
(* ProductsService.loadProducts *)

LoadProducts ==
  /\ CanInvoke
  /\ loading' = TRUE
  /\ error' = Null
  /\ Issue([kind |-> "list"])
  /\ UNCHANGED <<products, currentProduct, productLoading, productError>>

\* faulty variant of LoadProductsFallback: the handler passes the old collection on
LoadProductsFallbackStale == products

\* return of([]) in the catchError handler
LoadProductsFallback == <<>>

\* faulty variant of ProductsAfterLoad: the list is added to the collection
ProductsAfterLoadMerged(data) == products \o data

\* this.products.set(data)
ProductsAfterLoad(data) == data

\* faulty variant of SettleLoadProducts: the flag is lowered on a success only
SettleLoadProductsFlagOnSuccess(i, resp) ==
  /\ inflight[i].kind = "list"
  /\ error' = Caught(resp, error, Plain("Failed to load products"))
  /\ products' = ProductsAfterLoad(Recovered(resp, LoadProductsFallback))
  /\ loading' = (IF resp.ok THEN FALSE ELSE loading)
  /\ Settled(i)
  /\ UNCHANGED <<currentProduct, productLoading, productError>>

SettleLoadProducts(i, resp) ==
  /\ inflight[i].kind = "list"
  /\ error' = Caught(resp, error, Plain("Failed to load products"))
  /\ products' = ProductsAfterLoad(Recovered(resp, LoadProductsFallback))
  /\ loading' = FALSE
  /\ Settled(i)
  /\ UNCHANGED <<currentProduct, productLoading, productError>>

-----------------------------------------------------------------------------
(* ProductsService.getProductById *)

\* getProductById(id)
GetProductByIdCall(id) ==
  /\ productLoading' = TRUE
  /\ productError' = Null
  /\ currentProduct' = Null
  /\ IssueCall([kind |-> "get", id |-> id])
  /\ UNCHANGED <<products, loading, error>>

\* faulty variant of GetProductById: the product and the error of the previous
\* load stay until the call settles
GetProductByIdKeepsPrevious(id) ==
  /\ CanInvoke
  /\ productLoading' = TRUE
  /\ Issue([kind |-> "get", id |-> id])
  /\ UNCHANGED <<products, loading, error, currentProduct, productError>>

GetProductById(id) ==
  /\ CanInvoke
  /\ GetProductByIdCall(id)
  /\ log' = log
  /\ UNCHANGED pageVars

\* faulty variant of CurrentAfterGet: a result is dropped when another load has
\* already set the product
CurrentAfterGetFirstWins(data) ==
  IF Truthy(data) /\ currentProduct = Null THEN data ELSE currentProduct

\* subscribe((data) => { if (data) this.currentProduct.set(data); ... })
CurrentAfterGet(data) == IF Truthy(data) THEN data ELSE currentProduct

SettleGetProductById(i, resp) ==
  /\ inflight[i].kind = "get"
  /\ productError' = Caught(resp, productError, WithId("Failed to load product", inflight[i].id))
  /\ currentProduct' = CurrentAfterGet(Recovered(resp, Null))
  /\ productLoading' = FALSE
  /\ Settled(i)
  /\ UNCHANGED <<products, loading, error>>

-----------------------------------------------------------------------------
(* ProductsService.addProduct: the payload goes to the remote only, which answers
   with the entity it created *)

AddProductCall ==
  /\ productLoading' = TRUE
  /\ productError' = Null
  /\ IssueCall([kind |-> "add"])
  /\ UNCHANGED <<products, loading, error, currentProduct>>

AddProduct ==
  /\ CanInvoke
  /\ AddProductCall
  /\ log' = log
  /\ UNCHANGED pageVars

\* faulty variant of ProductsAfterAdd: the new entity is put first
ProductsAfterAddFirst(data) == IF Truthy(data) THEN <<data>> \o products ELSE products

\* this.products.set([...currentProducts, data])
ProductsAfterAdd(data) == IF Truthy(data) THEN Append(products, data) ELSE products

SettleAddProduct(i, resp) ==
  /\ inflight[i].kind = "add"
  /\ productError' = Caught(resp, productError, Plain("Failed to create product"))
  /\ products' = ProductsAfterAdd(Recovered(resp, Null))
  /\ currentProduct' = (IF Truthy(Recovered(resp, Null)) THEN Recovered(resp, Null) ELSE currentProduct)
  /\ productLoading' = FALSE
  /\ Settled(i)
  /\ UNCHANGED <<loading, error>>

-----------------------------------------------------------------------------
(* ProductsService.updateProduct *)

UpdateProductCall(id) ==
  /\ productLoading' = TRUE
  /\ productError' = Null
  /\ IssueCall([kind |-> "update", id |-> id])
  /\ UNCHANGED <<products, loading, error, currentProduct>>

UpdateProduct(id) ==
  /\ CanInvoke
  /\ UpdateProductCall(id)
  /\ log' = log
  /\ UNCHANGED pageVars

\* faulty variant of ProductsAfterUpdate: the entity is taken out and put last
ProductsAfterUpdateMovedLast(id, data) ==
  IF Truthy(data)
    THEN Append(SelectSeq(products, LAMBDA p : p.id # id), data)
    ELSE products

\* currentProducts.map((p) => (p.id === id ? data : p))
ProductsAfterUpdate(id, data) ==
  IF Truthy(data)
    THEN [j \in 1..Len(products) |-> IF products[j].id = id THEN data ELSE products[j]]
    ELSE products

SettleUpdateProduct(i, resp) ==
  /\ inflight[i].kind = "update"
  /\ productError' = Caught(resp, productError, WithId("Failed to update product", inflight[i].id))
  /\ products' = ProductsAfterUpdate(inflight[i].id, Recovered(resp, Null))
  /\ currentProduct' = (IF Truthy(Recovered(resp, Null)) THEN Recovered(resp, Null) ELSE currentProduct)
  /\ productLoading' = FALSE
  /\ Settled(i)
  /\ UNCHANGED <<loading, error>>

-----------------------------------------------------------------------------
(* ProductsService.deleteProduct *)

DeleteProduct(id) ==
  /\ CanInvoke
  /\ productLoading' = TRUE
  /\ productError' = Null
  /\ Issue([kind |-> "delete", id |-> id])
  /\ UNCHANGED <<products, loading, error, currentProduct>>

\* faulty variant of WithoutId: the first entity with the identifier is taken out
WithoutFirstId(list, id) ==
  LET hits == {j \in DOMAIN list : list[j].id = id}
  IN  IF hits = {} THEN list
      ELSE RemoveAt(list, CHOOSE j \in hits : \A k \in hits : j <= k)

\* currentProducts.filter((p) => p.id !== id)
WithoutId(list, id) == SelectSeq(list, LAMBDA p : p.id # id)

\* subscribe(() => { ... }): the callback takes no argument and has no condition,
\* so it runs on the value of(null) that the catchError handler substitutes as
\* well as on the remote's answer.
SettleDeleteProduct(i, resp) ==
  /\ inflight[i].kind = "delete"
  /\ productError' = Caught(resp, productError, WithId("Failed to delete product", inflight[i].id))
  /\ products' = WithoutId(products, inflight[i].id)
  /\ currentProduct' = Null
  /\ productLoading' = FALSE
  /\ Settled(i)
  /\ UNCHANGED <<loading, error>>

-----------------------------------------------------------------------------
(* ProductsService.clearCurrentProduct *)

\* clearCurrentProduct()
ClearCurrentProductCall ==
  /\ currentProduct' = Null
  /\ productError' = Null
  /\ UNCHANGED <<products, loading, error, productLoading, inflight, nOps>>
  /\ UNCHANGED cacheVars
  /\ UNCHANGED cartVars
  /\ UNCHANGED filterVars

\* faulty variant of ClearCurrentProduct: the error of the single product stays
ClearCurrentProductOnly ==
  /\ currentProduct' = Null
  /\ UNCHANGED <<products, loading, error, productLoading, productError, inflight, nOps, log>>
  /\ UNCHANGED cacheVars
  /\ UNCHANGED cartVars
  /\ UNCHANGED <<filterVars, pageVars>>

ClearCurrentProduct ==
  /\ ClearCurrentProductCall
  /\ log' = log
  /\ UNCHANGED pageVars

-----------------------------------------------------------------------------
(* The store: any operation may be invoked, any pending call may settle *)

LoadProductsSettles ==
  \E i \in DOMAIN inflight : \E resp \in ListResponses :
    SettleLoadProducts(i, resp) /\ UNCHANGED log

GetProductByIdSettles ==
  \E i \in DOMAIN inflight : \E resp \in EntityResponses :
    SettleGetProductById(i, resp) /\ UNCHANGED log

AddProductSettles ==
  \E i \in DOMAIN inflight : \E resp \in EntityResponses :
    SettleAddProduct(i, resp) /\ UNCHANGED log

UpdateProductSettles ==
  \E i \in DOMAIN inflight : \E resp \in EntityResponses :
    SettleUpdateProduct(i, resp) /\ UNCHANGED log

DeleteProductSettles ==
  \E i \in DOMAIN inflight : \E resp \in VoidResponses :
    SettleDeleteProduct(i, resp) /\ UNCHANGED log

Next ==
  \/ LoadProducts
  \/ \E id \in Ids : GetProductById(id)
  \/ AddProduct
  \/ \E id \in Ids : UpdateProduct(id)
  \/ \E id \in Ids : DeleteProduct(id)
  \/ ClearCurrentProduct
  \/ LoadProductsSettles
  \/ GetProductByIdSettles
  \/ AddProductSettles
  \/ UpdateProductSettles
  \/ DeleteProductSettles

Spec == Init /\ [][Next]_vars

-----------------------------------------------------------------------------
(* Creates, updates and removes alone *)

MutationNext ==
  \/ AddProduct
  \/ \E id \in Ids : UpdateProduct(id)
  \/ \E id \in Ids : DeleteProduct(id)
  \/ AddProductSettles
  \/ UpdateProductSettles
  \/ DeleteProductSettles

SpecMutations == Init /\ [][MutationNext]_vars

-----------------------------------------------------------------------------
(* Overlapping single-item loads, with the history of their settlements: which
   call settled (its position among the pending ones, oldest first) and what the
   remote answered *)

Logged(i, resp) ==
  LET event == [req |-> inflight[i], idx |-> i, resp |-> resp]
  IN  IF log = <<>> THEN <<event>> ELSE <<log[Len(log)], event>>

GetProductByIdSettlesLogged ==
  \E i \in DOMAIN inflight : \E resp \in EntityResponses :
    SettleGetProductById(i, resp) /\ log' = Logged(i, resp)

RaceNext ==
  \/ \E id \in Ids : GetProductById(id)
  \/ GetProductByIdSettlesLogged

SpecRace == Init /\ [][RaceNext]_vars

-----------------------------------------------------------------------------
(* HttpCacheService *)

\* keys are request urls; "" is the one string that is falsy
Keys == {"", "/products", "/products/1"}
Urls == Keys \ {""}

\* cached payloads: JSON bodies, null among them
Payloads == {Null} \cup [json : 1..MaxBody]

\* private readonly defaultTTL = 5 * 60 * 1000
defaultTTL == 5 * 60 * 1000

\* the optional parameter ttl?: number, <<>> when the argument is omitted
TtlArgs == {<<>>} \cup {<<t>> : t \in 0..MaxTtl}

\* The clock moves by a millisecond or by the default ttl. The instants looked at
\* are those up to MaxSkew milliseconds after the start and after one default ttl.
ClockSteps == {1, defaultTTL}

Tick ==
  /\ \E d \in ClockSteps :
       /\ now + d <= defaultTTL + MaxSkew
       /\ (now + d) % defaultTTL <= MaxSkew
       /\ now' = now + d
  /\ UNCHANGED <<cache, ret, nCalls, http, delivered, served>>
  /\ UNCHANGED storeVars
  /\ UNCHANGED cartVars
  /\ UNCHANGED <<filterVars, pageVars>>
  /\ UNCHANGED log

\* Map.delete(key)
MapDelete(map, key) == [k \in DOMAIN map \ {key} |-> map[k]]
\* Map.set(key, entry)
MapSet(map, key, entry) == [k \in DOMAIN map \cup {key} |-> IF k = key THEN entry ELSE map[k]]

\* faulty variant of IsExpired: an entry already expires at the instant its ttl is
\* reached
IsExpiredAtTtl(entry) == now - entry.timestamp >= entry.ttl

\* Date.now() - entry.timestamp > entry.ttl
IsExpired(entry) == now - entry.timestamp > entry.ttl

\* get(key) and has(key): the map after the lazy expiry check
CacheAfterLookup(key) ==
  IF key \in DOMAIN cache /\ IsExpired(cache[key]) THEN MapDelete(cache, key) ELSE cache

\* get(key): the value returned
GetResult(key) ==
  IF key \notin DOMAIN cache THEN Null
  ELSE IF IsExpired(cache[key]) THEN Null
  ELSE cache[key].data

\* has(key): the value returned
HasResult(key) ==
  IF key \notin DOMAIN cache THEN FALSE
  ELSE IF IsExpired(cache[key]) THEN FALSE
  ELSE TRUE

\* ttl || this.defaultTTL: undefined and 0 are falsy
TtlOrDefault(ttlArg) ==
  IF ttlArg = <<>> THEN defaultTTL
  ELSE IF ttlArg[1] = 0 THEN defaultTTL
  ELSE ttlArg[1]

\* set(key, data, ttl?): the map after the call
CacheAfterSet(key, data, ttlArg) ==
  MapSet(cache, key, [data |-> data, timestamp |-> now, ttl |-> TtlOrDefault(ttlArg)])

\* clear(key?): if (key) is false for an omitted key and for ""
CacheAfterClear(keyArg) ==
  IF keyArg # <<>> /\ keyArg[1] # "" THEN MapDelete(cache, keyArg[1]) ELSE <<>>

CanCall == nCalls < MaxCalls

DirectCall ==
  /\ CanCall
  /\ nCalls' = nCalls + 1
  /\ UNCHANGED <<now, http, delivered, served>>
  /\ UNCHANGED storeVars
  /\ UNCHANGED cartVars
  /\ UNCHANGED <<filterVars, pageVars>>
  /\ UNCHANGED log

CacheGet(key) ==
  /\ DirectCall
  /\ cache' = CacheAfterLookup(key)
  /\ ret' = [op |-> "get", key |-> key, value |-> GetResult(key)]

CacheHas(key) ==
  /\ DirectCall
  /\ cache' = CacheAfterLookup(key)
  /\ ret' = [op |-> "has", key |-> key, value |-> HasResult(key)]

CacheSet(key, data, ttlArg) ==
  /\ DirectCall
  /\ cache' = CacheAfterSet(key, data, ttlArg)
  /\ ret' = [op |-> "set", key |-> key]

CacheClear(keyArg) ==
  /\ DirectCall
  /\ cache' = CacheAfterClear(keyArg)
  /\ ret' = [op |-> "clear", key |-> keyArg]

CacheSize ==
  /\ DirectCall
  /\ cache' = cache
  /\ ret' = [op |-> "size", value |-> Cardinality(DOMAIN cache)]

CacheNext ==
  \/ \E key \in Keys : CacheGet(key)
  \/ \E key \in Keys : CacheHas(key)
  \/ \E key \in Keys : \E data \in Payloads : \E ttlArg \in TtlArgs : CacheSet(key, data, ttlArg)
  \/ \E keyArg \in {<<>>} \cup {<<k>> : k \in Keys} : CacheClear(keyArg)
  \/ CacheSize
  \/ Tick

SpecCache == Init /\ [][CacheNext]_vars

-----------------------------------------------------------------------------
(* httpCacheInterceptor *)

Methods == {"GET", "POST", "PUT", "DELETE"}

\* What the backend answers: a status and a body. HttpClient emits a status in
\* 200..299 as an HttpResponse event and raises any other (0: no connection) as
\* an HttpErrorResponse on the error channel, which tap's next callback never
\* sees.
BackendStatuses == {200, 204, 404, 0}
BackendResponses == [status : BackendStatuses, body : Payloads]

IsHttpResponse(resp) == resp.status >= 200 /\ resp.status < 300

\* faulty variant of Cacheable: every answer is stored
CacheableAnyAnswer(resp) == TRUE

\* event instanceof HttpResponse && event.status === 200
Cacheable(resp) == IsHttpResponse(resp) /\ resp.status = 200

\* if (cachedResponse)
Hit(cachedResponse) == Truthy(cachedResponse)

\* The request a call of next(req) leaves pending. consulted and evicted record
\* what the interceptor did before the call: whether it looked the url up in the
\* cache, and whether that lookup removed a stale entry.
Pending(method, url, consulted, evicted) ==
  [method |-> method, url |-> url, consulted |-> consulted, evicted |-> evicted]

CanIntercept == nCalls < MaxReqs

Intercept(method, url) ==
  /\ CanIntercept
  /\ nCalls' = nCalls + 1
  /\ IF method # "GET"
       THEN /\ http' = Append(http, Pending(method, url, FALSE, FALSE))
            /\ UNCHANGED <<cache, ret, delivered>>
       ELSE /\ cache' = CacheAfterLookup(url)
            /\ ret' = [op |-> "get", key |-> url, value |-> GetResult(url)]
            /\ IF Hit(GetResult(url))
                 THEN /\ delivered' = [from |-> "cache", url |-> url, status |-> 200,
                                       body |-> GetResult(url)]
                      /\ http' = http
                 ELSE /\ http' = Append(http, Pending(method, url, TRUE,
                                                      CacheAfterLookup(url) # cache))
                      /\ delivered' = delivered
  /\ UNCHANGED <<now, served>>
  /\ UNCHANGED storeVars
  /\ UNCHANGED cartVars
  /\ UNCHANGED <<filterVars, pageVars>>
  /\ UNCHANGED log

\* the backend answers the pending request i; on the GET path the answer passes
\* through tap before it reaches the caller
Respond(i, resp) ==
  /\ http' = RemoveAt(http, i)
  /\ delivered' = [from |-> "remote", url |-> http[i].url, status |-> resp.status,
                   body |-> resp.body]
  /\ IF http[i].method = "GET" /\ Cacheable(resp)
       THEN /\ cache' = CacheAfterSet(http[i].url, resp.body, <<>>)
            /\ ret' = [op |-> "set", key |-> http[i].url]
       ELSE UNCHANGED <<cache, ret>>
  /\ served' = IF http[i].method = "GET" /\ resp.status = 200
                 THEN served \cup {[url |-> http[i].url, body |-> resp.body, at |-> now]}
                 ELSE served
  /\ UNCHANGED <<now, nCalls>>
  /\ UNCHANGED storeVars
  /\ UNCHANGED cartVars
  /\ UNCHANGED <<filterVars, pageVars>>
  /\ UNCHANGED log

Responds ==
  \E i \in DOMAIN http : \E resp \in BackendResponses : Respond(i, resp)

InterceptorNext ==
  \/ \E method \in Methods : \E url \in Urls : Intercept(method, url)
  \/ Responds
  \/ Tick

SpecInterceptor == Init /\ [][InterceptorNext]_vars

-----------------------------------------------------------------------------
(* ProductsService behind httpCacheInterceptor: the store's remote client is the
   HttpClient the interceptor is installed on, so every read of the store
   consults the cache first and every write passes it by *)

MaxCachedOps == 3

\* #apiUrl, the url of the list read
ListUrl == "/products"

\* the statuses HttpClient delivers as a response rather than as an error
SuccessStatuses == {200, 201}

\* the body of a list response as the interceptor sees it: a JSON array, which is
\* truthy even when it is empty
ArrayBody(list) == [array |-> list]

\* loadProducts, its GET going through the interceptor. On a hit the interceptor
\* returns of(new HttpResponse(...)), which emits inside the subscribe call: the
\* subscriber has run when loadProducts returns.
LoadProductsCached ==
  /\ nOps < MaxCachedOps
  /\ nOps' = nOps + 1
  /\ error' = Null
  /\ cache' = CacheAfterLookup(ListUrl)
  /\ ret' = [op |-> "get", key |-> ListUrl, value |-> GetResult(ListUrl)]
  /\ IF Hit(GetResult(ListUrl))
       THEN /\ products' = GetResult(ListUrl).array
            /\ loading' = FALSE
            /\ inflight' = inflight
            /\ delivered' = [from |-> "cache", url |-> ListUrl, status |-> 200,
                             body |-> GetResult(ListUrl)]
       ELSE /\ products' = products
            /\ loading' = TRUE
            /\ inflight' = Append(inflight, [kind |-> "list"])
            /\ delivered' = delivered
  /\ UNCHANGED <<currentProduct, productLoading, productError, log,
                 now, nCalls, http, served>>
  /\ UNCHANGED cartVars
  /\ UNCHANGED <<filterVars, pageVars>>

\* the remote answers a pending list read: the answer passes through the
\* interceptor's tap and then reaches the store's subscriber. The history is
\* emptied when the list entry is stored.
SettleLoadProductsCached(i, resp, status) ==
  /\ inflight[i].kind = "list"
  /\ error' = Caught(resp, error, Plain("Failed to load products"))
  /\ products' = Recovered(resp, LoadProductsFallback)
  /\ loading' = FALSE
  /\ inflight' = RemoveAt(inflight, i)
  /\ nOps' = nOps
  /\ IF resp.ok /\ Cacheable([status |-> status, body |-> ArrayBody(resp.body)])
       THEN /\ cache' = CacheAfterSet(ListUrl, ArrayBody(resp.body), <<>>)
            /\ ret' = [op |-> "set", key |-> ListUrl]
            /\ log' = <<>>
       ELSE UNCHANGED <<cache, ret, log>>
  /\ UNCHANGED <<currentProduct, productLoading, productError,
                 now, nCalls, http, delivered, served>>
  /\ UNCHANGED cartVars
  /\ UNCHANGED <<filterVars, pageVars>>

LoadProductsCachedSettles ==
  \E i \in DOMAIN inflight : \E resp \in ListResponses : \E status \in SuccessStatuses :
    SettleLoadProductsCached(i, resp, status)

\* history: the last write that succeeded since the list entry was stored
Written(i, resp) == IF resp.ok THEN <<inflight[i]>> ELSE log

AddProductSettlesWritten ==
  \E i \in DOMAIN inflight : \E resp \in EntityResponses :
    SettleAddProduct(i, resp) /\ log' = Written(i, resp)

UpdateProductSettlesWritten ==
  \E i \in DOMAIN inflight : \E resp \in EntityResponses :
    SettleUpdateProduct(i, resp) /\ log' = Written(i, resp)

DeleteProductSettlesWritten ==
  \E i \in DOMAIN inflight : \E resp \in VoidResponses :
    SettleDeleteProduct(i, resp) /\ log' = Written(i, resp)

CachedStoreNext ==
  \/ LoadProductsCached
  \/ AddProduct
  \/ \E id \in Ids : UpdateProduct(id)
  \/ \E id \in Ids : DeleteProduct(id)
  \/ LoadProductsCachedSettles
  \/ AddProductSettlesWritten
  \/ UpdateProductSettlesWritten
  \/ DeleteProductSettlesWritten
  \/ Tick

SpecCachedStore == Init /\ [][CachedStoreNext]_vars

-----------------------------------------------------------------------------
(* CartService: carts and their line items *)

MaxItems == 1
MaxCartOps == 2

\* the ids of the carts the remote holds
CartIds == {1, 2}

\* the products that are put into carts
CartProductIds == {1, 2}

\* CartItem { productId, quantity } as the remote sends it
CartItem == [productId : CartProductIds, quantity : {1, 2}]
\* Cart { id, products }: userId and date are carried along and never looked at
Cart == [id : CartIds, products : SeqsUpTo(CartItem, MaxItems)]

\* the quantities a caller passes: a negative one, zero, one and more than one,
\* <<>> when the argument is omitted
QtyArgs == {<<>>} \cup {<<q>> : q \in (0 - 1)..2}

CanInvokeCart == nCartOps < MaxCartOps

CartIssue(req) ==
  /\ cartInflight' = Append(cartInflight, req)
  /\ nCartOps' = nCartOps + 1
  /\ UNCHANGED <<storeVars, log, cacheVars, filterVars, pageVars>>

CartSettled(i) ==
  /\ cartInflight' = RemoveAt(cartInflight, i)
  /\ nCartOps' = nCartOps
  /\ UNCHANGED <<storeVars, log, cacheVars, filterVars, pageVars>>

\* getCartById / updateCart: any cart, or a failure
CartResponses == {Ok(c) : c \in Cart} \cup {Fail(e) : e \in Failures}
\* loadCarts: a list of carts (none or one), or a failure
CartListResponses == {Ok(<<>>)} \cup {Ok(<<c>>) : c \in Cart} \cup {Fail(e) : e \in Failures}

\* loadCarts()
LoadCarts ==
  /\ CanInvokeCart
  /\ cartsLoading' = TRUE
  /\ cartsError' = Null
  /\ CartIssue([kind |-> "loadCarts"])
  /\ UNCHANGED <<carts, currentCart, cartLoading, cartError, cartAlias>>

\* the carts of a response are new objects: none of them is the current cart
SettleLoadCarts(i, resp) ==
  /\ cartInflight[i].kind = "loadCarts"
  /\ cartsError' = Caught(resp, cartsError, Plain("Failed to load carts"))
  /\ carts' = Recovered(resp, <<>>)
  /\ cartAlias' = {}
  /\ cartsLoading' = FALSE
  /\ CartSettled(i)
  /\ UNCHANGED <<currentCart, cartLoading, cartError>>

LoadCartsSettles ==
  \E i \in DOMAIN cartInflight : \E resp \in CartListResponses : SettleLoadCarts(i, resp)

\* getCartById(id)
GetCartById(id) ==
  /\ CanInvokeCart
  /\ cartLoading' = TRUE
  /\ cartError' = Null
  /\ currentCart' = Null
  /\ cartAlias' = {}
  /\ CartIssue([kind |-> "getCart", id |-> id])
  /\ UNCHANGED <<carts, cartsLoading, cartsError>>

SettleGetCartById(i, resp) ==
  /\ cartInflight[i].kind = "getCart"
  /\ cartError' = Caught(resp, cartError, WithId("Failed to load cart", cartInflight[i].id))
  /\ IF Truthy(Recovered(resp, Null))
       THEN currentCart' = Recovered(resp, Null) /\ cartAlias' = {}
       ELSE UNCHANGED <<currentCart, cartAlias>>
  /\ cartLoading' = FALSE
  /\ CartSettled(i)
  /\ UNCHANGED <<carts, cartsLoading, cartsError>>

GetCartByIdSettles ==
  \E i \in DOMAIN cartInflight : \E resp \in CartResponses : SettleGetCartById(i, resp)

\* faulty variant of StartUpdateCart: only the line item written last is sent
StartUpdateCartPatch(id, items, by) ==
  /\ cartLoading' = TRUE
  /\ cartError' = Null
  /\ CartIssue([kind |-> "updateCart", id |-> id,
                payload |-> IF items = <<>> THEN <<>> ELSE <<items[Len(items)]>>,
                by |-> by, before |-> currentCart.products])
  /\ UNCHANGED <<cartsLoading, cartsError, cartAlias>>

\* updateCart(id, { products }): the request body is serialised when the call is
\* made, so the pending request holds the line items as they were then. Two
\* fields are history: by, the operation and arguments that made the call, and
\* before, the current cart's line items when that operation was invoked.
StartUpdateCart(id, items, by) ==
  /\ cartLoading' = TRUE
  /\ cartError' = Null
  /\ CartIssue([kind |-> "updateCart", id |-> id, payload |-> items,
                by |-> by, before |-> currentCart.products])
  /\ UNCHANGED <<cartsLoading, cartsError, cartAlias>>

\* currentCarts.map((c) => (c.id === id ? data : c))
CartsAfterUpdate(id, data) ==
  [k \in DOMAIN carts |-> IF carts[k].id = id THEN data ELSE carts[k]]

SettleUpdateCart(i, resp) ==
  /\ cartInflight[i].kind = "updateCart"
  /\ cartError' = Caught(resp, cartError, WithId("Failed to update cart", cartInflight[i].id))
  /\ IF Truthy(Recovered(resp, Null))
       THEN /\ carts' = CartsAfterUpdate(cartInflight[i].id, Recovered(resp, Null))
            /\ currentCart' = Recovered(resp, Null)
            /\ cartAlias' = {k \in DOMAIN carts : carts[k].id = cartInflight[i].id}
       ELSE UNCHANGED <<carts, currentCart, cartAlias>>
  /\ cartLoading' = FALSE
  /\ CartSettled(i)
  /\ UNCHANGED <<cartsLoading, cartsError>>

\* the remote's answer to an update that echoes what was submitted
Echo(req) == [id |-> req.id, products |-> req.payload]

UpdateCartSettles ==
  \E i \in {k \in DOMAIN cartInflight : cartInflight[k].kind = "updateCart"} :
    \E resp \in {Ok(Echo(cartInflight[i]))} \cup {Fail(e) : e \in Failures} :
      SettleUpdateCart(i, resp)

\* faulty variant of NoCartSelected: the guard raises the loading flag and drops
\* the carts before it returns
NoCartSelectedBusy ==
  /\ cartError' = [text |-> Plain("No cart selected")]
  /\ cartLoading' = TRUE
  /\ carts' = <<>>
  /\ UNCHANGED <<cartsLoading, cartsError, currentCart, cartAlias, cartInflight, nCartOps>>
  /\ UNCHANGED <<storeVars, log, cacheVars, filterVars, pageVars>>

\* if (!cart) { this.cartError.set('No cart selected'); return; }
NoCartSelected ==
  /\ cartError' = [text |-> Plain("No cart selected")]
  /\ UNCHANGED <<carts, cartsLoading, cartsError, currentCart, cartLoading, cartAlias,
                 cartInflight, nCartOps>>
  /\ UNCHANGED <<storeVars, log, cacheVars, filterVars, pageVars>>

\* cart.products.find((item) => item.productId === productId): the position of the
\* first match, 0 when there is none
FindItem(items, productId) ==
  IF \E k \in DOMAIN items : items[k].productId = productId
    THEN CHOOSE k \in DOMAIN items :
           /\ items[k].productId = productId
           /\ \A j \in DOMAIN items : items[j].productId = productId => k <= j
    ELSE 0

\* A write through cart.products or through one of its items changes the object
\* the currentCart signal holds, and with it every member of carts that is that
\* same object.
WrittenInPlace(items) ==
  /\ currentCart' = [currentCart EXCEPT !.products = items]
  /\ carts' = [k \in DOMAIN carts |->
                 IF k \in cartAlias THEN [carts[k] EXCEPT !.products = items] ELSE carts[k]]

\* quantity: number = 1
QuantityOrDefault(qArg) == IF qArg = <<>> THEN 1 ELSE qArg[1]

\* faulty variant of ItemsAfterAdd: a line item is pushed whether or not the cart
\* has one for the product
ItemsAfterAddAlwaysPush(items, productId, quantity) ==
  Append(items, [productId |-> productId, quantity |-> quantity])

\* existingProduct.quantity += quantity, or cart.products.push({ productId, quantity })
ItemsAfterAdd(items, productId, quantity) ==
  IF FindItem(items, productId) # 0
    THEN [items EXCEPT ![FindItem(items, productId)].quantity = @ + quantity]
    ELSE Append(items, [productId |-> productId, quantity |-> quantity])

\* addProductToCart(productId, quantity = 1)
AddProductToCart(productId, qArg) ==
  IF currentCart = Null
    THEN NoCartSelected
    ELSE /\ CanInvokeCart
         /\ WrittenInPlace(ItemsAfterAdd(currentCart.products, productId, QuantityOrDefault(qArg)))
         /\ StartUpdateCart(currentCart.id,
                            ItemsAfterAdd(currentCart.products, productId, QuantityOrDefault(qArg)),
                            <<"addProductToCart", productId, QuantityOrDefault(qArg)>>)

\* cart.products.filter((item) => item.productId !== productId)
ItemsAfterRemove(items, productId) == SelectSeq(items, LAMBDA item : item.productId # productId)

\* removeProductFromCart(productId): the filtered copy goes to the remote, the
\* cart itself is not written
RemoveProductFromCart(productId) ==
  IF currentCart = Null
    THEN NoCartSelected
    ELSE /\ CanInvokeCart
         /\ UNCHANGED <<carts, currentCart>>
         /\ StartUpdateCart(currentCart.id, ItemsAfterRemove(currentCart.products, productId),
                            <<"removeProductFromCart", productId>>)

\* faulty variant of Max1: the floor is 0
Max0(quantity) == IF quantity > 0 THEN quantity ELSE 0

\* Math.max(1, quantity)
Max1(quantity) == IF quantity > 1 THEN quantity ELSE 1

\* product.quantity = Math.max(1, quantity)
ItemsAfterSetQuantity(items, productId, quantity) ==
  [items EXCEPT ![FindItem(items, productId)].quantity = Max1(quantity)]

\* updateProductQuantity(productId, quantity): nothing happens when the cart has
\* no line item for the product
UpdateProductQuantity(productId, quantity) ==
  IF currentCart = Null
    THEN NoCartSelected
    ELSE IF FindItem(currentCart.products, productId) = 0
      THEN UNCHANGED vars
      ELSE /\ CanInvokeCart
           /\ WrittenInPlace(ItemsAfterSetQuantity(currentCart.products, productId, quantity))
           /\ StartUpdateCart(currentCart.id,
                              ItemsAfterSetQuantity(currentCart.products, productId, quantity),
                              <<"updateProductQuantity", productId, quantity>>)

\* clearCurrentCart()
ClearCurrentCart ==
  /\ currentCart' = Null
  /\ cartError' = Null
  /\ cartAlias' = {}
  /\ UNCHANGED <<carts, cartsLoading, cartsError, cartLoading, cartInflight, nCartOps>>
  /\ UNCHANGED <<storeVars, log, cacheVars, filterVars, pageVars>>

CartNext ==
  \/ \E id \in CartIds : GetCartById(id)
  \/ \E productId \in CartProductIds : \E qArg \in QtyArgs : AddProductToCart(productId, qArg)
  \/ \E productId \in CartProductIds : RemoveProductFromCart(productId)
  \/ \E productId \in CartProductIds : \E qArg \in QtyArgs \ {<<>>} : UpdateProductQuantity(productId, qArg[1])
  \/ GetCartByIdSettles
  \/ UpdateCartSettles

SpecCart == Init /\ [][CartNext]_vars

-----------------------------------------------------------------------------
(* CartService against a remote that holds well-formed carts and answers an
   update with the cart as it was submitted *)

\* quantities at least 1, and at most one line item per product
WellFormedItems(items) ==
  /\ \A k \in DOMAIN items : items[k].quantity >= 1
  /\ \A j, k \in DOMAIN items : items[j].productId = items[k].productId => j = k

GetCartByIdSettlesWellFormed ==
  \E i \in DOMAIN cartInflight : \E resp \in CartResponses :
    /\ resp.ok => WellFormedItems(resp.body.products)
    /\ SettleGetCartById(i, resp)

UpdateCartEchoes ==
  \E i \in {k \in DOMAIN cartInflight : cartInflight[k].kind = "updateCart"} :
    SettleUpdateCart(i, Ok(Echo(cartInflight[i])))

CartEchoNext ==
  \/ \E id \in CartIds : GetCartById(id)
  \/ \E productId \in CartProductIds : \E qArg \in QtyArgs : AddProductToCart(productId, qArg)
  \/ \E productId \in CartProductIds : RemoveProductFromCart(productId)
  \/ \E productId \in CartProductIds : \E qArg \in QtyArgs \ {<<>>} : UpdateProductQuantity(productId, qArg[1])
  \/ GetCartByIdSettlesWellFormed
  \/ UpdateCartEchoes

SpecCartEcho == Init /\ [][CartEchoNext]_vars

-----------------------------------------------------------------------------
(* ProductsService: the filter and sort controls *)

MaxTerm == 2

\* strings that are typed are sequences of characters; " " is whitespace
SearchChars == {" ", "a"}
SearchInputs == SeqsUpTo(SearchChars, MaxTerm)

RECURSIVE TrimStart(_)
TrimStart(s) == IF s = <<>> THEN <<>> ELSE IF s[1] = " " THEN TrimStart(Tail(s)) ELSE s

RECURSIVE TrimEnd(_)
TrimEnd(s) ==
  IF s = <<>> THEN <<>>
  ELSE IF s[Len(s)] = " " THEN TrimEnd(SubSeq(s, 1, Len(s) - 1)) ELSE s

\* String.prototype.trim()
Trim(s) == TrimEnd(TrimStart(s))

\* the category names the selector offers; "" selects none
CategoryInputs == {"", "tools", "toys"}

\* the numbers a caller passes as price bounds
PriceArgs == (0 - MaxPrice)..(MaxPrice + 1)

\* SortField and SortOrder
SortFields == {"name", "price", "rating"}
SortOrders == {"asc", "desc"}

\* Math.max(a, b)
MathMax(a, b) == IF a >= b THEN a ELSE b

FilterOnly == UNCHANGED <<storeVars, log, cacheVars, cartVars, pageVars>>

\* setSearchTerm(term)
SetSearchTermCall(term) ==
  /\ searchTerm' = Trim(term)
  /\ UNCHANGED <<selectedCategory, minPrice, maxPrice, sortBy, sortOrder>>
  /\ UNCHANGED <<storeVars, cacheVars, cartVars>>

\* faulty variant of SetSearchTerm: the term is stored as typed
SetSearchTermUntrimmed(term) ==
  /\ searchTerm' = term
  /\ UNCHANGED <<selectedCategory, minPrice, maxPrice, sortBy, sortOrder>>
  /\ FilterOnly

SetSearchTerm(term) ==
  /\ SetSearchTermCall(term)
  /\ log' = log
  /\ UNCHANGED pageVars

\* setCategory(category)
SetCategory(category) ==
  /\ selectedCategory' = category
  /\ UNCHANGED <<searchTerm, minPrice, maxPrice, sortBy, sortOrder>>
  /\ FilterOnly

\* this.maxPrice.set(Math.max(min, max)): min is the argument, not the value
\* minPrice was set to
MaxPriceAfterSet(min, max) == MathMax(min, max)

\* setPriceRange(min, max)
SetPriceRange(min, max) ==
  /\ minPrice' = MathMax(0, min)
  /\ maxPrice' = MaxPriceAfterSet(min, max)
  /\ UNCHANGED <<searchTerm, selectedCategory, sortBy, sortOrder>>
  /\ FilterOnly

\* faulty variant of SortAfterSet: the direction is not toggled, every call
\* resets it to ascending
SortAfterSetNoToggle(field, by, order) == <<field, "asc">>

\* setSort(field): the sort field and direction after the call, given those
\* before it
SortAfterSet(field, by, order) ==
  IF by = field
    THEN <<by, IF order = "asc" THEN "desc" ELSE "asc">>
    ELSE <<field, "asc">>

SetSort(field) ==
  /\ sortBy' = SortAfterSet(field, sortBy, sortOrder)[1]
  /\ sortOrder' = SortAfterSet(field, sortBy, sortOrder)[2]
  /\ UNCHANGED <<searchTerm, selectedCategory, minPrice, maxPrice>>
  /\ FilterOnly

\* faulty variant of ClearFilters: the collection is emptied with the controls
ClearFiltersAndCollection ==
  /\ searchTerm' = <<>>
  /\ selectedCategory' = ""
  /\ minPrice' = 0
  /\ maxPrice' = 10000
  /\ sortBy' = "name"
  /\ sortOrder' = "asc"
  /\ products' = <<>>
  /\ UNCHANGED <<loading, error, currentProduct, productLoading, productError, inflight, nOps>>
  /\ UNCHANGED <<log, cacheVars, cartVars, pageVars>>

\* clearFilters()
ClearFilters ==
  /\ searchTerm' = <<>>
  /\ selectedCategory' = ""
  /\ minPrice' = 0
  /\ maxPrice' = 10000
  /\ sortBy' = "name"
  /\ sortOrder' = "asc"
  /\ FilterOnly

FilterNext ==
  \/ \E term \in SearchInputs : SetSearchTerm(term)
  \/ \E category \in CategoryInputs : SetCategory(category)
  \/ \E min \in PriceArgs : \E max \in PriceArgs : SetPriceRange(min, max)
  \/ \E field \in SortFields : SetSort(field)
  \/ ClearFilters

SpecFilters == Init /\ [][FilterNext]_vars

-----------------------------------------------------------------------------
(* ProductsService.filteredProducts: the sort stage *)

MaxShown == 2

\* titles are strings of characters; every character has a place in the
\* collation order localeCompare goes by
CatalogTitles == {<<"a">>, <<"b">>}

CharRank(c) == CASE c = " " -> 0 [] c = "a" -> 1 [] c = "A" -> 2 [] OTHER -> 3

\* a.localeCompare(b): negative, zero or positive
RECURSIVE LocaleCompare(_, _)
LocaleCompare(s, t) ==
  IF s = <<>> /\ t = <<>> THEN 0
  ELSE IF s = <<>> THEN 0 - 1
  ELSE IF t = <<>> THEN 1
  ELSE IF CharRank(s[1]) < CharRank(t[1]) THEN 0 - 1
  ELSE IF CharRank(s[1]) > CharRank(t[1]) THEN 1
  ELSE LocaleCompare(Tail(s), Tail(t))

\* Product with the attributes the sort looks at: title, price and rating.rate
Catalog == [id : Ids, title : CatalogTitles, price : 1..MaxPrice, rate : {1, 2}]

\* switch (this.sortBy()) { case 'name': ... case 'price': ... case 'rating': ... }
Comparison(a, b) ==
  CASE sortBy = "name" -> LocaleCompare(a.title, b.title)
    [] sortBy = "price" -> a.price - b.price
    [] sortBy = "rating" -> a.rate - b.rate

\* return this.sortOrder() === 'asc' ? comparison : -comparison
DirectedComparison(a, b, order) ==
  IF order = "asc" THEN Comparison(a, b) ELSE 0 - Comparison(a, b)

\* Array.prototype.sort(compareFn), which is stable: an element is placed before
\* the first one that compares greater, behind every one that compares equal
InsertSorted(sorted, x, order) ==
  LET greater == {j \in DOMAIN sorted : DirectedComparison(sorted[j], x, order) > 0}
      at == IF greater = {} THEN Len(sorted) + 1
            ELSE CHOOSE j \in greater : \A k \in greater : j <= k
  IN  SubSeq(sorted, 1, at - 1) \o <<x>> \o SubSeq(sorted, at, Len(sorted))

RECURSIVE Sorted(_, _)
Sorted(list, order) ==
  IF list = <<>> THEN <<>>
  ELSE InsertSorted(Sorted(SubSeq(list, 1, Len(list) - 1), order), list[Len(list)], order)

Reversed(list) == [k \in DOMAIN list |-> list[Len(list) + 1 - k]]

\* faulty variant of SortStage: descending is ascending turned round
SortStageReversing(list) ==
  IF sortOrder = "asc" THEN Sorted(list, "asc") ELSE Reversed(Sorted(list, "asc"))

\* filtered = [...filtered].sort((a, b) => ...)
SortStage(list) == Sorted(list, sortOrder)

\* a collection has been loaded; the sort controls are operated
InitCatalog ==
  /\ products \in SeqsUpTo(Catalog, MaxShown)
  /\ InitRest

SortNext == \E field \in SortFields : SetSort(field)

SpecSort == InitCatalog /\ [][SortNext]_vars

-----------------------------------------------------------------------------
(* ProductsService.filteredProducts, filteredCount and categories: the derived
   view of a loaded collection *)

MaxStock == 2

\* UTF-16 code units of the characters in use
CodeUnit(c) ==
  CASE c = " " -> 32 [] c = "A" -> 65 [] c = "a" -> 97 [] c = "b" -> 98
    [] c = "c" -> 99 [] c = "l" -> 108 [] c = "o" -> 111 [] c = "s" -> 115
    [] c = "t" -> 116 [] c = "y" -> 121

\* the characters of a category name
Letters(name) ==
  CASE name = "" -> <<>>
    [] name = "tools" -> <<"t", "o", "o", "l", "s">>
    [] name = "toys" -> <<"t", "o", "y", "s">>

\* String.prototype.toLowerCase()
ToLowerCase(s) == [k \in DOMAIN s |-> IF s[k] = "A" THEN "a" ELSE s[k]]

\* String.prototype.includes(term)
Includes(s, term) ==
  \E k \in 0..(Len(s) - Len(term)) : SubSeq(s, k + 1, k + Len(term)) = term

\* Product with the attributes the derived view looks at
Stock == [id : {1}, title : {<<"A">>, <<"b">>}, description : {<<"a">>, <<"c">>},
          category : {"tools", "toys"}, price : {1, 2}, rate : {1}]

\* if (this.searchTerm()) { filtered = filtered.filter(...) }, for the value typed
\* that searchTerm() returns: '' is falsy
SearchFor(list, typed) ==
  IF typed # <<>>
    THEN LET term == ToLowerCase(typed)
         IN  SelectSeq(list, LAMBDA p :
               \/ Includes(ToLowerCase(p.title), term)
               \/ Includes(ToLowerCase(p.description), term)
               \/ Includes(ToLowerCase(Letters(p.category)), term))
    ELSE list

SearchStage(list) == SearchFor(list, searchTerm)

\* if (this.selectedCategory()) { filtered = filtered.filter(...) }
CategoryStage(list) ==
  IF selectedCategory # ""
    THEN SelectSeq(list, LAMBDA p : p.category = selectedCategory)
    ELSE list

\* faulty variant of PriceStage: the lower bound is exclusive
PriceStageExclusive(list) ==
  SelectSeq(list, LAMBDA p : p.price > minPrice /\ p.price <= maxPrice)

\* filtered.filter((p) => p.price >= this.minPrice() && p.price <= this.maxPrice())
PriceStage(list) ==
  SelectSeq(list, LAMBDA p : p.price >= minPrice /\ p.price <= maxPrice)

\* computed(() => { ... return filtered; })
FilteredProducts == SortStage(PriceStage(CategoryStage(SearchStage(products))))

\* computed(() => this.filteredProducts().length)
FilteredCount == Len(FilteredProducts)

\* new Set(values): the values in the order of their first occurrence
RECURSIVE Distinct(_)
Distinct(values) ==
  IF values = <<>> THEN <<>>
  ELSE LET front == Distinct(SubSeq(values, 1, Len(values) - 1))
           last == values[Len(values)]
       IN  IF \E k \in DOMAIN front : front[k] = last THEN front ELSE Append(front, last)

\* the order of Array.prototype.sort() without a compare function: by code units
RECURSIVE CodeUnitsBefore(_, _)
CodeUnitsBefore(s, t) ==
  IF t = <<>> THEN FALSE
  ELSE IF s = <<>> THEN TRUE
  ELSE IF CodeUnit(s[1]) # CodeUnit(t[1]) THEN CodeUnit(s[1]) < CodeUnit(t[1])
  ELSE CodeUnitsBefore(Tail(s), Tail(t))

InsertName(sorted, x) ==
  LET greater == {j \in DOMAIN sorted : CodeUnitsBefore(Letters(x), Letters(sorted[j]))}
      at == IF greater = {} THEN Len(sorted) + 1
            ELSE CHOOSE j \in greater : \A k \in greater : j <= k
  IN  SubSeq(sorted, 1, at - 1) \o <<x>> \o SubSeq(sorted, at, Len(sorted))

RECURSIVE SortedNames(_)
SortedNames(names) ==
  IF names = <<>> THEN <<>>
  ELSE InsertName(SortedNames(SubSeq(names, 1, Len(names) - 1)), names[Len(names)])

CategoryOf(list) == [k \in DOMAIN list |-> list[k].category]

\* Array.from(new Set(list.map((p) => p.category))).sort()
CategoriesOf(list) == SortedNames(Distinct(CategoryOf(list)))

\* faulty variant of Categories: the categories of the filtered view
CategoriesOfView == CategoriesOf(FilteredProducts)

\* computed(() => { ... this.products() ... })
Categories == CategoriesOf(products)

\* what the page's controls are set to
ViewTerms == {<<>>, <<" ">>, <<" ", " ">>, <<"A">>, <<"y">>}
ViewPrices == {1, 2}

\* a collection has been loaded; the filter and sort controls are operated
InitStock ==
  /\ products \in SeqsUpTo(Stock, MaxStock)
  /\ InitRest

ViewNext ==
  \/ \E term \in ViewTerms : SetSearchTerm(term)
  \/ \E category \in CategoryInputs : SetCategory(category)
  \/ \E min \in ViewPrices : \E max \in ViewPrices : SetPriceRange(min, max)
  \/ \E field \in SortFields : SetSort(field)
  \/ ClearFilters

SpecView == InitStock /\ [][ViewNext]_vars

-----------------------------------------------------------------------------
(* The products page: the list and one product are loaded while the filter and
   sort controls are operated *)

\* the controls of the page are operated
OperateControls ==
  \/ SetSearchTerm(<<"a", " ">>)
  \/ SetCategory("toys")
  \/ SetPriceRange(1, 2)
  \/ SetSort("price")
  \/ ClearFilters

BrowseNext ==
  \/ LoadProducts
  \/ GetProductById(1)
  \/ LoadProductsSettles
  \/ GetProductByIdSettles
  \/ OperateControls

SpecBrowse == Init /\ [][BrowseNext]_vars

-----------------------------------------------------------------------------
(* Creates, updates and removes on a collection that has been loaded *)

MaxLoaded == 2

\* the list the remote answered the load with: one product for an identifier,
\* or several (the remote is not bound to distinct identifiers)
LoadedLists == SeqsUpTo([id : {1, 2}, price : {1}], MaxLoaded)

InitLoaded ==
  /\ products \in LoadedLists
  /\ InitRest

SpecLoaded == InitLoaded /\ [][MutationNext]_vars

-----------------------------------------------------------------------------
(* The current product and the current cart are loaded and cleared. The two
   services share no state, and the product page and the cart page are not
   open together: one of the services is used at a time. *)

OnProductPage == nCartOps = 0
OnCartPage == nOps = 0

ClearNext ==
  \/ OnProductPage /\ LoadProducts
  \/ OnProductPage /\ LoadProductsSettles
  \/ OnProductPage /\ \E id \in Ids : GetProductById(id)
  \/ OnProductPage /\ GetProductByIdSettles
  \/ OnProductPage /\ ClearCurrentProduct
  \/ OnCartPage /\ LoadCarts
  \/ OnCartPage /\ LoadCartsSettles
  \/ OnCartPage /\ \E id \in CartIds : GetCartById(id)
  \/ OnCartPage /\ GetCartByIdSettles
  \/ OnCartPage /\ ClearCurrentCart

SpecClear == Init /\ [][ClearNext]_vars

-----------------------------------------------------------------------------
(* Every pending call settles. The remote answers every request or the request
   fails, so a subscription that waits for its call is not left waiting for
   ever; the caller invokes what and when it likes, MaxOps operations at most on
   the page it has open. *)

SettlingNext ==
  \/ OnProductPage /\ LoadProducts
  \/ OnProductPage /\ \E id \in Ids : GetProductById(id)
  \/ OnProductPage /\ AddProduct
  \/ OnProductPage /\ \E id \in Ids : UpdateProduct(id)
  \/ OnProductPage /\ \E id \in Ids : DeleteProduct(id)
  \/ LoadProductsSettles
  \/ GetProductByIdSettles
  \/ AddProductSettles
  \/ UpdateProductSettles
  \/ DeleteProductSettles
  \/ OnCartPage /\ LoadCarts
  \/ OnCartPage /\ \E id \in CartIds : GetCartById(id)
  \/ LoadCartsSettles
  \/ GetCartByIdSettles

EveryCallSettles ==
  /\ WF_vars(LoadProductsSettles)
  /\ WF_vars(GetProductByIdSettles)
  /\ WF_vars(AddProductSettles)
  /\ WF_vars(UpdateProductSettles)
  /\ WF_vars(DeleteProductSettles)
  /\ WF_vars(LoadCartsSettles)
  /\ WF_vars(GetCartByIdSettles)

SpecSettling == Init /\ [][SettlingNext]_vars /\ EveryCallSettles

-----------------------------------------------------------------------------
(* ProductsListComponent: the search box. A timeout runs its callback when its
   delay has passed, and the callbacks that are due run before a later input is
   handled. The history holds the calls of onSearchChange: the term and the
   instant of each. *)

\* setTimeout(..., 250)
DebounceMs == 250

MaxSearches == 3

\* what the user types
TypedTerms == {<<"a">>, <<"b", " ">>}

\* the instants looked at: the multiples of the delay, a millisecond before and
\* a millisecond after each
Instant(t) == t % DebounceMs \in {0, 1, DebounceMs - 1}

\* clearTimeout(handle): the timeout of that handle, if it is still pending, is gone
ClearTimeout(handle) == {t \in timers : t.handle # handle}

\* faulty variant of OnSearchChange: the pending timeout is not cleared
OnSearchChangeNoClear(term) ==
  /\ Len(log) < MaxSearches
  /\ \A t \in timers : t.due > now
  /\ timers' = timers \cup {[handle |-> Len(log) + 1, term |-> term, due |-> now + DebounceMs]}
  /\ searchTimer' = Len(log) + 1
  /\ log' = Append(log, [term |-> term, at |-> now])
  /\ UNCHANGED <<isEditMode, isCreating, selectedCartId>>
  /\ UNCHANGED <<storeVars, cacheVars, cartVars, filterVars>>

\* onSearchChange(term): clearTimeout(this._searchTimer);
\* this._searchTimer = setTimeout(() => setSearchTerm(term), 250)
OnSearchChange(term) ==
  /\ Len(log) < MaxSearches
  /\ \A t \in timers : t.due > now
  /\ timers' = ClearTimeout(searchTimer)
                 \cup {[handle |-> Len(log) + 1, term |-> term, due |-> now + DebounceMs]}
  /\ searchTimer' = Len(log) + 1
  /\ log' = Append(log, [term |-> term, at |-> now])
  /\ UNCHANGED <<isEditMode, isCreating, selectedCartId>>
  /\ UNCHANGED <<storeVars, cacheVars, cartVars, filterVars>>

\* time passes while a timeout is pending, up to the instant the next one is due
Elapse ==
  /\ timers # {}
  /\ \E d \in 1..DebounceMs :
       /\ Instant(now + d)
       /\ \A t \in timers : now + d <= t.due
       /\ now' = now + d
  /\ UNCHANGED <<cache, ret, nCalls, http, delivered, served>>
  /\ UNCHANGED <<storeVars, log, cartVars, filterVars, pageVars>>

\* the callback of a timeout that is due: () => this.#productsService.setSearchTerm(term)
SearchTimerFires ==
  \E t \in timers :
    /\ t.due = now
    /\ SetSearchTermCall(t.term)
    /\ timers' = timers \ {t}
    /\ UNCHANGED <<log, isEditMode, isCreating, searchTimer, selectedCartId>>

SearchNext ==
  \/ \E term \in TypedTerms : OnSearchChange(term)
  \/ Elapse
  \/ SearchTimerFires

SpecSearch == Init /\ [][SearchNext]_vars

-----------------------------------------------------------------------------
(* ProductsListComponent: the edit form. The form is a modal: while it is open
   the handlers of the list behind it are out of reach, and those of the form are
   in reach only while it is open. An effect runs when a signal it has read has
   changed, before the next event is handled. The history says what has happened
   to the form since it was opened: <<"saved">> once a save has settled without
   an error. *)

MaxPageOps == 3

CanInvokeOnPage == nOps < MaxPageOps

\* if (!this.isEditMode()) return; ... if (!loading && !pLoading && !pError)
EffectDue == isEditMode /\ ~loading /\ ~productLoading /\ productError = Null

\* editForm.reset(); isEditMode.set(false); isCreating.set(false); clearCurrentProduct()
FormClosed ==
  /\ isEditMode' = FALSE
  /\ isCreating' = FALSE
  /\ ClearCurrentProductCall
  /\ log' = log
  /\ UNCHANGED <<searchTimer, timers, selectedCartId>>

\* ngOnInit(): this.#productsService.loadProducts()
ProductsListNgOnInit == nOps = 0 /\ LoadProducts

\* onAddProduct()
OnAddProduct ==
  /\ nOps > 0
  /\ ~isEditMode
  /\ isEditMode' = TRUE
  /\ isCreating' = TRUE
  /\ ClearCurrentProductCall
  /\ log' = <<>>
  /\ UNCHANGED <<searchTimer, timers, selectedCartId>>

\* onEditProduct(id)
OnEditProduct(id) ==
  /\ nOps > 0
  /\ ~isEditMode
  /\ CanInvokeOnPage
  /\ isEditMode' = TRUE
  /\ isCreating' = FALSE
  /\ GetProductByIdCall(id)
  /\ log' = <<>>
  /\ UNCHANGED <<searchTimer, timers, selectedCartId>>

\* onSaveProduct(), the form being valid: if (!this.editForm.valid) return
OnSaveProduct ==
  /\ isEditMode
  /\ ~EffectDue
  /\ CanInvokeOnPage
  /\ IF isCreating
       THEN AddProductCall /\ log' = log /\ UNCHANGED pageVars
       ELSE IF currentProduct # Null
         THEN UpdateProductCall(currentProduct.id) /\ log' = log /\ UNCHANGED pageVars
         ELSE UNCHANGED vars

\* onCancelEdit()
OnCancelEdit == isEditMode /\ ~EffectDue /\ FormClosed

\* the second effect of the constructor
CloseFormEffect == EffectDue /\ FormClosed

\* the remote answers the save
SaveSettles ==
  \E i \in DOMAIN inflight : \E resp \in EntityResponses :
    /\ ~EffectDue
    /\ SettleAddProduct(i, resp) \/ SettleUpdateProduct(i, resp)
    /\ log' = (IF resp.ok THEN <<"saved">> ELSE log)

EditNext ==
  \/ ProductsListNgOnInit
  \/ OnAddProduct
  \/ \E id \in Ids : OnEditProduct(id)
  \/ OnSaveProduct
  \/ OnCancelEdit
  \/ CloseFormEffect
  \/ ~EffectDue /\ LoadProductsSettles
  \/ ~EffectDue /\ GetProductByIdSettles
  \/ SaveSettles

SpecEditForm == Init /\ [][EditNext]_vars

-----------------------------------------------------------------------------
(* CartComponent behind httpCacheInterceptor. CartService is provided in root: it
   and the cache outlive the component, which is created anew, with
   selectedCartId null, each time the page is opened. The history holds the calls
   of getCartById the last ngOnInit has made. The read of the single cart is
   followed up to its settlement, not through the cache. *)

MaxCartPageOps == 4

\* #apiUrl, the url of the list read
CartsUrl == "/carts"

\* ngOnInit(): loadCarts(), whose GET goes through the interceptor, and then
\* if (this.carts().length > 0) { selectedCartId.set(firstCart.id);
\* getCartById(firstCart.id) }. On a hit the interceptor returns of(...), which
\* emits inside the subscribe call: carts is set when loadCarts returns. On a
\* miss the call is pending and carts is what it was.
CartNgOnInit ==
  LET hit == Hit(GetResult(CartsUrl))
      listNow == IF hit THEN GetResult(CartsUrl).array ELSE carts
      listCall == IF hit THEN <<>> ELSE <<[kind |-> "loadCarts"]>>
  IN  /\ nCartOps + 2 <= MaxCartPageOps
      /\ cache' = CacheAfterLookup(CartsUrl)
      /\ ret' = [op |-> "get", key |-> CartsUrl, value |-> GetResult(CartsUrl)]
      /\ carts' = listNow
      /\ cartsLoading' = ~hit
      /\ cartsError' = Null
      /\ IF Len(listNow) > 0
           THEN /\ selectedCartId' = <<listNow[1].id>>
                /\ cartLoading' = TRUE
                /\ cartError' = Null
                /\ currentCart' = Null
                /\ cartAlias' = {}
                /\ cartInflight' = cartInflight \o listCall
                                     \o <<[kind |-> "getCart", id |-> listNow[1].id]>>
                /\ nCartOps' = nCartOps + 2
                /\ log' = <<[op |-> "getCartById", id |-> listNow[1].id]>>
           ELSE /\ selectedCartId' = <<>>
                /\ cartAlias' = IF hit THEN {} ELSE cartAlias
                /\ cartInflight' = cartInflight \o listCall
                /\ nCartOps' = nCartOps + 1
                /\ log' = <<>>
                /\ UNCHANGED <<currentCart, cartLoading, cartError>>
      /\ UNCHANGED <<now, nCalls, http, delivered, served>>
      /\ UNCHANGED <<storeVars, filterVars, isEditMode, isCreating, searchTimer, timers>>

\* the remote answers a pending list read: the answer passes through the
\* interceptor's tap and then reaches the service's subscriber
SettleLoadCartsCached(i, resp, status) ==
  /\ cartInflight[i].kind = "loadCarts"
  /\ cartsError' = Caught(resp, cartsError, Plain("Failed to load carts"))
  /\ carts' = Recovered(resp, <<>>)
  /\ cartAlias' = {}
  /\ cartsLoading' = FALSE
  /\ cartInflight' = RemoveAt(cartInflight, i)
  /\ nCartOps' = nCartOps
  /\ IF resp.ok /\ Cacheable([status |-> status, body |-> ArrayBody(resp.body)])
       THEN /\ cache' = CacheAfterSet(CartsUrl, ArrayBody(resp.body), <<>>)
            /\ ret' = [op |-> "set", key |-> CartsUrl]
       ELSE UNCHANGED <<cache, ret>>
  /\ UNCHANGED <<currentCart, cartLoading, cartError>>
  /\ UNCHANGED <<now, nCalls, http, delivered, served>>
  /\ UNCHANGED <<storeVars, log, filterVars, pageVars>>

LoadCartsCachedSettles ==
  \E i \in DOMAIN cartInflight : \E resp \in CartListResponses : \E status \in SuccessStatuses :
    SettleLoadCartsCached(i, resp, status)

CartPageNext ==
  \/ CartNgOnInit
  \/ LoadCartsCachedSettles
  \/ GetCartByIdSettles

SpecCartPage == Init /\ [][CartPageNext]_vars

-----------------------------------------------------------------------------
(* Properties of the entity store *)

NoDuplicateIds(list) ==
  \A j, k \in 1..Len(list) : list[j].id = list[k].id => j = k

ListPending == \E i \in DOMAIN inflight : inflight[i].kind = "list"
ItemPending == \E i \in DOMAIN inflight : inflight[i].kind # "list"

\* C1: under any sequence of addProduct, updateProduct and deleteProduct calls,
\* whatever entity the remote answers with, no two members of the products
\* collection have the same id.
C1_NoDuplicateIds == NoDuplicateIds(products)

\* C2: a deleteProduct whose remote call fails only records the error message: the
\* collection and the current product are what they were just before the
\* settlement.
C2_FailedDeleteOnlyRecordsError ==
  [][\A i \in DOMAIN inflight : \A resp \in VoidResponses :
       (SettleDeleteProduct(i, resp) /\ ~resp.ok)
         => /\ products' = products
            /\ currentProduct' = currentProduct]_vars

\* C3: when the remote list call of loadProducts fails, the failure becomes state:
\* right after the settlement the collection is empty, the list error holds the
\* message for that failure and the list loading flag is false.
C3_FailedLoadAbsorbed ==
  [][\A i \in DOMAIN inflight : \A resp \in ListResponses :
       (SettleLoadProducts(i, resp) /\ ~resp.ok)
         => /\ products' = <<>>
            /\ error' # Null
            /\ error' = getErrorMessage(resp.err, Plain("Failed to load products"))
            /\ loading' = FALSE]_vars

\* a list load failed with status 0 and left the empty collection and the
\* connection message
C3_Witness ==
  /\ error = [text |-> Plain("Network error. Please check your connection.")]
  /\ products = <<>>
  /\ ~loading
  /\ nOps = MaxOps
  /\ inflight = <<>>

\* C4: in every reachable state, when the list error is set and no list load is
\* pending, the collection is empty.
C4_NoDataBesideListError ==
  (error # Null /\ ~ListPending) => products = <<>>

\* C5: right after a getProductById settles with a failure the single-item error
\* is set and the current product is null, whatever other single-item operations
\* it was interleaved with.
C5_FailedGetLeavesNull ==
  [][\A i \in DOMAIN inflight : \A resp \in EntityResponses :
       (SettleGetProductById(i, resp) /\ ~resp.ok)
         => /\ productError' # Null
            /\ currentProduct' = Null]_vars

\* C6: a getProductById leaves every call that is already pending running, and
\* each successful settlement of a getProductById makes its own result the current
\* product, so after two overlapping loads for different ids the current product
\* is the result of the one that settled last, whichever was requested last.
C6_LastSettledGetWins ==
  [][/\ nOps' > nOps => SubSeq(inflight', 1, Len(inflight)) = inflight
     /\ \A i \in DOMAIN inflight : \A resp \in EntityResponses :
          (SettleGetProductById(i, resp) /\ resp.ok)
            => /\ currentProduct' = resp.body
               /\ inflight' = RemoveAt(inflight, i)]_vars

\* two loads for different ids overlapped, the one requested last settled first,
\* and the current product is the result of the one requested first
C6_Witness ==
  /\ Len(log) = 2
  /\ log[1].idx = 2 /\ log[2].idx = 1
  /\ log[1].resp.ok /\ log[2].resp.ok
  /\ log[1].req.id # log[2].req.id
  /\ log[1].resp.body # log[2].resp.body
  /\ inflight = <<>>
  /\ currentProduct = log[2].resp.body

\* C7: while a list load is pending the list loading flag is true, and while a
\* single-item operation is pending the single-item loading flag is true.
C7_LoadingWhilePending ==
  /\ ListPending => loading
  /\ ItemPending => productLoading

-----------------------------------------------------------------------------
(* Properties of the response cache *)

Fresh(key) == key \in DOMAIN cache /\ now - cache[key].timestamp <= cache[key].ttl

\* C8: get(k) returns the stored payload exactly when an entry for k exists and
\* now - timestamp <= ttl, and has(k) is true exactly then; otherwise get returns
\* absent, has returns false, and the map has no entry for k after the call. No
\* other entry is touched.
C8_NeverServedPastTtl ==
  [][\A key \in Keys :
       /\ CacheGet(key) =>
            /\ ret'.value = (IF Fresh(key) THEN cache[key].data ELSE Null)
            /\ cache' = (IF Fresh(key) THEN cache ELSE MapDelete(cache, key))
       /\ CacheHas(key) =>
            /\ ret'.value = Fresh(key)
            /\ cache' = (IF Fresh(key) THEN cache ELSE MapDelete(cache, key))]_vars

\* a get at the very instant the ttl is reached still returned the payload
C8_Witness ==
  /\ ret.op = "get"
  /\ ret.key \in DOMAIN cache
  /\ now - cache[ret.key].timestamp = cache[ret.key].ttl
  /\ now > cache[ret.key].timestamp
  /\ ret.value = cache[ret.key].data
  /\ ret.value # Null

\* C9: set(k, v, ttl) stores the entry with exactly the ttl passed, for every
\* ttl >= 0, and with the default of 5 minutes only when the argument is omitted.
C9_SetStoresGivenTtl ==
  [][\A key \in Keys : \A data \in Payloads : \A ttlArg \in TtlArgs :
       CacheSet(key, data, ttlArg)
         => cache'[key].ttl = (IF ttlArg = <<>> THEN defaultTTL ELSE ttlArg[1])]_vars

NonGetPending == \A i \in DOMAIN http : http[i].method # "GET" => ~http[i].consulted

EntriesServed ==
  \A key \in DOMAIN cache :
    /\ [url |-> key, body |-> cache[key].data, at |-> cache[key].timestamp] \in served
    /\ cache[key].ttl = defaultTTL

NonGetBypasses ==
  /\ \A method \in Methods \ {"GET"} : \A url \in Urls :
       Intercept(method, url) => cache' = cache /\ ret' = ret
  /\ \A i \in DOMAIN http : \A resp \in BackendResponses :
       (Respond(i, resp) /\ http[i].method # "GET") => cache' = cache /\ ret' = ret

\* C10 as claimed: every cache entry was written by a GET answered with status
\* 200; non-GET requests and GETs that fail neither read nor write the cache.
C10_OnlyOkGetsTouchCache ==
  /\ [](EntriesServed /\ NonGetPending)
  /\ [][/\ NonGetBypasses
        /\ \A i \in DOMAIN http : \A resp \in BackendResponses :
             (Respond(i, resp) /\ http[i].method = "GET" /\ ~IsHttpResponse(resp))
               => /\ cache' = cache
                  /\ ~http[i].consulted
                  /\ ~http[i].evicted]_vars

\* C10 as amended: every cache entry was written by a GET answered with status
\* 200; non-GET requests neither read nor write the cache; a GET that is not
\* answered with status 200 stores nothing, and the one cache access of a GET is
\* the lookup made before the remote call, which at most removes the stale entry
\* of its own url.
C10_OnlyOkGetsPopulateCache ==
  /\ [](EntriesServed /\ NonGetPending)
  /\ [][/\ NonGetBypasses
        /\ \A i \in DOMAIN http : \A resp \in BackendResponses :
             (Respond(i, resp) /\ http[i].method = "GET" /\ resp.status # 200)
               => cache' = cache /\ ret' = ret
        /\ \A url \in Urls :
             Intercept("GET", url)
               => /\ cache' \in {cache, MapDelete(cache, url)}
                  /\ cache' # cache => (url \in DOMAIN cache /\ ~Fresh(url))]_vars

\* a GET answered with status 200 has populated the cache, and a later GET of
\* another url was looked up, missed and failed without leaving an entry
C10_Witness ==
  /\ http = <<>>
  /\ nCalls >= 2
  /\ DOMAIN cache # {}
  /\ delivered.from = "remote"
  /\ delivered.status = 0
  /\ delivered.url \notin DOMAIN cache
  /\ ret.op = "get"
  /\ ret.key = delivered.url

\* C11: the cache is consulted before a read is issued. A GET whose url has an
\* unexpired entry is answered from the cache with the entry's payload, whatever
\* that payload is, and nothing is handed to the remote; a GET with no unexpired
\* entry hands exactly one request to the remote, and a status-200 answer to it
\* stores its body under the url.
C11_CacheConsultedBeforeRead ==
  [][/\ \A url \in Urls :
          Intercept("GET", url)
            => IF Fresh(url)
                 THEN /\ http' = http
                      /\ delivered' = [from |-> "cache", url |-> url, status |-> 200,
                                       body |-> cache[url].data]
                 ELSE /\ http' = Append(http, Pending("GET", url, TRUE, url \in DOMAIN cache))
                      /\ delivered' = delivered
     /\ \A i \in DOMAIN http : \A resp \in BackendResponses :
          (Respond(i, resp) /\ http[i].method = "GET" /\ resp.status = 200)
            => /\ http[i].url \in DOMAIN cache'
               /\ cache'[http[i].url].data = resp.body]_vars

-----------------------------------------------------------------------------
(* Properties of the store behind the cache *)

\* C12: once a create, update or remove of the store has succeeded, the list
\* cached before that write is not served any more: the next loadProducts hands a
\* list read to the remote and leaves the collection as the write left it until
\* the remote answers.
C12_WriteInvalidatesCachedList ==
  [][(LoadProductsCached /\ log # <<>>)
       => /\ inflight' = Append(inflight, [kind |-> "list"])
          /\ products' = products]_vars

-----------------------------------------------------------------------------
(* Properties of the cart's line items *)

LineItemCall(req) ==
  req.kind = "updateCart" /\ req.by[1] \in {"addProductToCart", "updateProductQuantity"}

\* C13: when the update call made by addProductToCart or updateProductQuantity
\* settles with a failure, only the cart error is recorded: the current cart has
\* the line items it had before the operation was invoked, and the settlement
\* leaves the carts collection alone.
C13_FailedUpdateKeepsLineItems ==
  [][\A i \in DOMAIN cartInflight : \A err \in Failures :
       (SettleUpdateCart(i, Fail(err)) /\ LineItemCall(cartInflight[i]))
         => /\ cartError' # Null
            /\ carts' = carts
            /\ currentCart' # Null => currentCart'.products = cartInflight[i].before]_vars

\* C14: with a remote that holds well-formed carts and echoes what is submitted,
\* after any sequence of addProductToCart, updateProductQuantity and
\* removeProductFromCart with arbitrary integer quantities every line item of the
\* current cart has a quantity of at least 1 and no two share a productId.
C14_LineItemsWellFormed ==
  currentCart # Null => WellFormedItems(currentCart.products)

\* C15: addProductToCart(p, q) on a selected cart merges on add. When the cart
\* has a line item for p, no item is added or moved and the quantity of the first
\* item for p grows by q; otherwise the item {p, q} is appended last. Every other
\* line item keeps its place and its quantity.
C15_AddMerges ==
  [][\A p \in CartProductIds : \A qArg \in QtyArgs :
       (currentCart # Null /\ AddProductToCart(p, qArg))
         => LET old == currentCart.products
                new == currentCart'.products
                q == IF qArg = <<>> THEN 1 ELSE qArg[1]
                has == \E k \in DOMAIN old : old[k].productId = p
            IN  IF has
                  THEN /\ Len(new) = Len(old)
                       /\ \A k \in DOMAIN old :
                            /\ new[k].productId = old[k].productId
                            /\ new[k].quantity =
                                 old[k].quantity +
                                   (IF old[k].productId = p
                                       /\ \A j \in 1..(k - 1) : old[j].productId # p
                                      THEN q ELSE 0)
                  ELSE /\ Len(new) = Len(old) + 1
                       /\ SubSeq(new, 1, Len(old)) = old
                       /\ new[Len(new)] = [productId |-> p, quantity |-> q]]_vars

\* an add of 2 more of a product the cart holds once has left one line item of 3
C15_Witness ==
  /\ currentCart # Null
  /\ Len(cartInflight) = 1
  /\ cartInflight[1].kind = "updateCart"
  /\ cartInflight[1].by = <<"addProductToCart", 1, 2>>
  /\ cartInflight[1].before = <<[productId |-> 1, quantity |-> 1]>>
  /\ currentCart.products = <<[productId |-> 1, quantity |-> 3]>>

LineItemMutation ==
  \/ \E p \in CartProductIds : \E qArg \in QtyArgs : AddProductToCart(p, qArg)
  \/ \E p \in CartProductIds : RemoveProductFromCart(p)
  \/ \E p \in CartProductIds : \E qArg \in QtyArgs \ {<<>>} :
       /\ currentCart # Null
       /\ \E k \in DOMAIN currentCart.products : currentCart.products[k].productId = p
       /\ UpdateProductQuantity(p, qArg[1])

\* C17: every line-item mutation on a selected cart makes exactly one update call,
\* for the id of the current cart, and its payload is the whole recomputed list
\* of line items: the cart's list after an add or a change of quantity, the
\* cart's list without the removed product after a removal.
C17_WholeListSubmitted ==
  [][(currentCart # Null /\ LineItemMutation)
       => /\ nCartOps' = nCartOps + 1
          /\ Len(cartInflight') = Len(cartInflight) + 1
          /\ SubSeq(cartInflight', 1, Len(cartInflight)) = cartInflight
          /\ LET req == cartInflight'[Len(cartInflight')]
             IN  /\ req.kind = "updateCart"
                 /\ req.id = currentCart.id
                 /\ IF req.by[1] = "removeProductFromCart"
                      THEN /\ currentCart'.products = currentCart.products
                           /\ \A k \in DOMAIN req.payload : req.payload[k].productId # req.by[2]
                           /\ Len(req.payload) =
                                Cardinality({k \in DOMAIN currentCart.products :
                                               currentCart.products[k].productId # req.by[2]})
                           /\ \A k \in DOMAIN currentCart.products :
                                currentCart.products[k].productId # req.by[2]
                                  => req.payload[Cardinality({j \in 1..k :
                                       currentCart.products[j].productId # req.by[2]})]
                                     = currentCart.products[k]
                      ELSE /\ req.payload = currentCart'.products
                           /\ Len(req.payload) >= Len(currentCart.products)]_vars

\* a product was added to the second cart, which held another product: the one
\* pending call is an update of cart 2 that carries both line items
C17_Witness ==
  /\ currentCart # Null
  /\ currentCart.id = 2
  /\ Len(cartInflight) = 1
  /\ cartInflight[1].kind = "updateCart"
  /\ cartInflight[1].id = 2
  /\ cartInflight[1].by[1] = "addProductToCart"
  /\ Len(cartInflight[1].before) = 1
  /\ Len(cartInflight[1].payload) = 2
  /\ cartInflight[1].payload = currentCart.products
  /\ nCartOps = 2

-----------------------------------------------------------------------------
(* Properties of the filter and sort controls *)

\* C18: after setPriceRange(min, max), for any integers min and max, the bounds
\* in effect satisfy 0 <= minPrice <= maxPrice: min is clamped to at least 0 and
\* max to at least the lower bound in effect.
C18_PriceRangeOrdered ==
  [][\A min \in PriceArgs : \A max \in PriceArgs :
       SetPriceRange(min, max)
         => /\ 0 <= minPrice'
            /\ minPrice' <= maxPrice'
            /\ minPrice' = (IF min >= 0 THEN min ELSE 0)
            /\ maxPrice' = (IF max >= minPrice' THEN max ELSE minPrice')]_vars

\* C19: setSort(f) on the active field flips the direction and keeps the field;
\* setSort(f) on another field makes f the field and the direction ascending; so
\* two setSort(f) in a row on the active field restore field and direction.
C19_SetSortToggles ==
  [][\A f \in SortFields :
       /\ SetSort(f)
            => IF sortBy = f
                 THEN /\ sortBy' = sortBy
                      /\ sortOrder' \in SortOrders
                      /\ sortOrder' # sortOrder
                 ELSE /\ sortBy' = f
                      /\ sortOrder' = "asc"
       /\ sortBy = f
            => LET once == SortAfterSet(f, sortBy, sortOrder)
               IN  /\ once[1] = sortBy
                   /\ once[2] # sortOrder
                   /\ SortAfterSet(f, once[1], once[2]) = <<sortBy, sortOrder>>]_vars

\* price was made the sort field and then toggled to descending
C19_Witness ==
  /\ sortBy = "price"
  /\ sortOrder = "desc"

\* the attribute of p the sort goes by
SortKey(p) ==
  CASE sortBy = "name" -> p.title
    [] sortBy = "price" -> p.price
    [] sortBy = "rating" -> p.rate

WithKeyOf(list, p) == SelectSeq(list, LAMBDA q : SortKey(q) = SortKey(p))

\* C20: the sort stage is stable. The entities that share a value of the selected
\* sort key come out in the order they have in the collection, in ascending and
\* in descending direction, and the output is ordered by the key in the selected
\* direction.
C20_SortStable ==
  LET out == SortStage(products)
  IN  /\ Len(out) = Len(products)
      /\ \A k \in DOMAIN products : WithKeyOf(out, products[k]) = WithKeyOf(products, products[k])
      /\ \A j, k \in DOMAIN out :
           j < k => DirectedComparison(out[j], out[k], sortOrder) <= 0

\* in descending order by price, two products of one price and different titles
\* keep the order they have in the collection
C20_Witness ==
  /\ sortBy = "price"
  /\ sortOrder = "desc"
  /\ Len(products) = 2
  /\ products[1].price = products[2].price
  /\ products[1].title = <<"b">>
  /\ products[2].title = <<"a">>
  /\ SortStage(products) = products

-----------------------------------------------------------------------------
(* Properties of the derived view *)

\* p passes the three filters
Matches(p) ==
  /\ \/ searchTerm = <<>>
     \/ \E field \in {p.title, p.description, Letters(p.category)} :
          Includes(ToLowerCase(field), ToLowerCase(searchTerm))
  /\ selectedCategory = "" \/ p.category = selectedCategory
  /\ minPrice <= p.price
  /\ p.price <= maxPrice

\* C21: filteredProducts is determined by the collection and the six controls and
\* is the sort of the price filter of the category filter of the search filter:
\* it holds exactly the members of the collection that match the term, are of
\* the selected category (any when none is selected) and have minPrice <= price
\* <= maxPrice, each as often as the collection holds it, ordered by the sort
\* key in the sort direction; filteredCount is its length.
C21_FilteredProductsPipeline ==
  LET out == FilteredProducts
      kept == {j \in DOMAIN products : Matches(products[j])}
  IN  /\ out = SortStage(SelectSeq(products, Matches))
      /\ Len(out) = Cardinality(kept)
      /\ \A k \in DOMAIN out : \E j \in kept : out[k] = products[j]
      /\ \A j \in kept :
           Cardinality({k \in DOMAIN out : out[k] = products[j]})
             = Cardinality({i \in kept : products[i] = products[j]})
      /\ \A j, k \in DOMAIN out : j < k => DirectedComparison(out[j], out[k], sortOrder) <= 0
      /\ FilteredCount = Len(out)

\* of two products one passes every stage, with its price on both bounds
C21_Witness ==
  /\ Len(products) = 2
  /\ searchTerm = <<"A">>
  /\ selectedCategory = "toys"
  /\ minPrice = 1
  /\ maxPrice = 1
  /\ sortOrder = "desc"
  /\ FilteredCount = 1
  /\ FilteredProducts[1].price = 1

\* a term that is empty or made of whitespace
Blank(term) == \A k \in DOMAIN term : term[k] = " "

\* p passes the category and the price filter
InCategoryAndRange(p) ==
  /\ selectedCategory = "" \/ p.category = selectedCategory
  /\ minPrice <= p.price
  /\ p.price <= maxPrice

\* C22: after setSearchTerm(t) with t empty or whitespace only, the search stage
\* keeps everything: what reaches the sort stage, which only reorders, is exactly
\* the members of the collection that pass the category and the price stage.
C22_BlankTermKeepsAll ==
  [][\A term \in ViewTerms :
       (Blank(term) /\ SetSearchTerm(term))
         => /\ UNCHANGED <<products, selectedCategory, minPrice, maxPrice, sortBy, sortOrder>>
            /\ SearchFor(products, searchTerm') = products
            /\ PriceStage(CategoryStage(SearchFor(products, searchTerm')))
                 = SelectSeq(products, InCategoryAndRange)]_vars

\* no term is set, a category is selected, and of two products whose titles do
\* not hold a blank one passes the category and price stages
C22_Witness ==
  /\ searchTerm = <<>>
  /\ selectedCategory = "toys"
  /\ minPrice = 1
  /\ maxPrice = 2
  /\ Len(products) = 2
  /\ FilteredCount = 1

\* C23: categories is the duplicate-free list, in ascending order, of the
\* category values of the whole collection, filtered or not: whatever the search
\* term, the selected category, the price bounds and the sort controls are set
\* to, it holds exactly the categories that occur in products, so that setting
\* a control does not change it.
C23_CategoriesOfWholeCollection ==
  /\ \A j, k \in DOMAIN Categories :
       j < k => CodeUnitsBefore(Letters(Categories[j]), Letters(Categories[k]))
  /\ {Categories[k] : k \in DOMAIN Categories}
       = {products[j].category : j \in DOMAIN products}
  /\ Len(Categories) = Cardinality({products[j].category : j \in DOMAIN products})

\* the collection holds a toy before a tool and the view shows the toy alone;
\* categories lists both, tools first
C23_Witness ==
  /\ Len(products) = 2
  /\ products[1].category = "toys"
  /\ products[2].category = "tools"
  /\ selectedCategory = "toys"
  /\ FilteredCount = 1
  /\ Categories = <<"tools", "toys">>

-----------------------------------------------------------------------------
(* Properties of the products page *)

\* C24: setSearchTerm, setCategory, setPriceRange, setSort and clearFilters leave
\* the collection, the loading flags of the list and of the single product, both
\* errors and the current product as they are, and make no remote call: no step
\* that is such a call, and no step that changes a control, changes any of them
\* or the pending calls.
C24_SettersLeaveStoreAlone ==
  [][(OperateControls \/ filterVars' # filterVars)
       => /\ products' = products
          /\ loading' = loading
          /\ productLoading' = productLoading
          /\ error' = error
          /\ productError' = productError
          /\ currentProduct' = currentProduct
          /\ inflight' = inflight
          /\ nOps' = nOps
          /\ http' = http]_vars

\* the list has been loaded, a single product is being loaded, and the controls
\* have been set meanwhile
C24_Witness ==
  /\ products # <<>>
  /\ productLoading
  /\ inflight # <<>>
  /\ searchTerm = <<"a">>
  /\ selectedCategory = "toys"
  /\ minPrice = 1
  /\ maxPrice = 2
  /\ sortBy = "price"
  /\ sortOrder = "desc"

-----------------------------------------------------------------------------
(* Properties of the settlements of the entity store *)

\* C25: when loadProducts settles with a success, the collection is exactly the
\* list the remote returned, whatever it held before and whatever was added
\* while the load was pending, and the loading flag of the list is false.
C25_LoadReplacesCollection ==
  [][\A i \in DOMAIN inflight : \A resp \in ListResponses :
       (SettleLoadProducts(i, resp) /\ resp.ok)
         => /\ products' = resp.body
            /\ loading' = FALSE]_vars

\* a product was set as the current one while the list was loading; the list
\* that arrived since does not hold it
C25_Witness ==
  /\ nOps = 2
  /\ inflight = <<>>
  /\ ~loading
  /\ error = Null
  /\ currentProduct # Null
  /\ Len(products) = 1
  /\ products[1] # currentProduct

\* C26: when addProduct settles with a success, the collection is the previous
\* one with the returned entity appended as its last member, the order of the
\* others kept, and the current product is the returned entity; when it settles
\* with a failure, collection and current product stay as they were and, of the
\* signals that carry data or an error, only productError is set.
C26_AddAppends ==
  [][\A i \in DOMAIN inflight : \A resp \in EntityResponses :
       SettleAddProduct(i, resp)
         => IF resp.ok
              THEN /\ products' = Append(products, resp.body)
                   /\ currentProduct' = resp.body
              ELSE /\ products' = products
                   /\ currentProduct' = currentProduct
                   /\ productError' # Null
                   /\ error' = error
                   /\ loading' = loading]_vars

\* a product was created on a loaded collection of two: it is the third and last
\* member and the current product
C26_Witness ==
  /\ Len(products) = 3
  /\ products[1].id = 2
  /\ products[2].id = 1
  /\ products[1].price = 1
  /\ products[2].price = 1
  /\ products[3] = currentProduct
  /\ products[3].price = 2
  /\ productError = Null
  /\ inflight = <<>>

\* C27: when updateProduct(id, payload) settles with a success, every member of
\* the collection with identifier id is replaced, where it stands, by the
\* returned entity, the other members and the length of the collection stay,
\* and the current product is the returned entity; when it settles with a
\* failure, collection and current product stay as they were.
C27_UpdateReplacesInPlace ==
  [][\A i \in DOMAIN inflight : \A resp \in EntityResponses :
       SettleUpdateProduct(i, resp)
         => IF resp.ok
              THEN /\ Len(products') = Len(products)
                   /\ \A j \in DOMAIN products :
                        products'[j] = IF products[j].id = inflight[i].id
                                         THEN resp.body
                                         ELSE products[j]
                   /\ currentProduct' = resp.body
              ELSE /\ products' = products
                   /\ currentProduct' = currentProduct]_vars

\* the first of two loaded products was updated: the returned entity stands
\* first and is the current product, the second is as it was loaded
C27_Witness ==
  /\ nOps = 1
  /\ inflight = <<>>
  /\ Len(products) = 2
  /\ products[1] = currentProduct
  /\ products[1].price = 2
  /\ products[2].price = 1
  /\ products[2].id # products[1].id
  /\ productError = Null

\* C28: when deleteProduct(id) settles with a success, the collection holds no
\* entity with identifier id, the other entities are all there in the order
\* they had, and the current product is null: after a load of the identifiers
\* 1 and 2, deleteProduct(1) leaves the entity with identifier 2 alone.
C28_DeleteRemovesById ==
  [][\A i \in DOMAIN inflight : \A resp \in VoidResponses :
       (SettleDeleteProduct(i, resp) /\ resp.ok)
         => /\ \A j \in DOMAIN products' : products'[j].id # inflight[i].id
            /\ products' = SelectSeq(products, LAMBDA p : p.id # inflight[i].id)
            /\ currentProduct' = Null]_vars

\* of the loaded products 1 and 2 the first was removed
C28_Witness ==
  /\ nOps = 1
  /\ inflight = <<>>
  /\ productError = Null
  /\ currentProduct = Null
  /\ Len(products) = 1
  /\ products[1].id = 2

-----------------------------------------------------------------------------
(* Properties of clearCurrentProduct and clearCurrentCart *)

\* C29: clearCurrentProduct sets the current product and productError to null
\* and leaves products, loading and error as they are; clearCurrentCart sets the
\* current cart and cartError to null and leaves carts and the loading flag and
\* error of the list of carts as they are.
C29_ClearCurrentResetsItemOnly ==
  [][/\ ClearCurrentProduct
          => /\ currentProduct' = Null
             /\ productError' = Null
             /\ products' = products
             /\ loading' = loading
             /\ error' = error
     /\ ClearCurrentCart
          => /\ currentCart' = Null
             /\ cartError' = Null
             /\ carts' = carts
             /\ cartsLoading' = cartsLoading
             /\ cartsError' = cartsError]_vars

\* the list and then a single product were loaded, and the current product was
\* cleared: the collection is there, product and error are null
C29_Witness ==
  /\ nOps = 2
  /\ inflight = <<>>
  /\ products # <<>>
  /\ ~loading
  /\ ~productLoading
  /\ currentProduct = Null
  /\ productError = Null

-----------------------------------------------------------------------------
(* Properties of the error messages *)

\* recorded is the one message that the failure err calls for, given the
\* default message of the operation
Normalised(recorded, err, defaultMsg) ==
  /\ recorded # Null
  /\ ("status" \in DOMAIN err /\ err.status = 0)
       => recorded = [text |-> Plain("Network error. Please check your connection.")]
  /\ ("status" \in DOMAIN err /\ err.status # 0)
       => recorded = [text |-> defaultMsg, status |-> err.status]
  /\ "status" \notin DOMAIN err
       => recorded = [text |-> defaultMsg]

\* C30: every remote call that fails is recorded as exactly one of three
\* messages, by the status of the failure: the connection message for status 0,
\* the default message of the operation qualified with s for any other status
\* s, the default message alone for a failure without a status; the error
\* recorded by a failed settlement is never null.
C30_FailuresNormalised ==
  [][\A i \in DOMAIN inflight :
       /\ \A resp \in ListResponses :
            (SettleLoadProducts(i, resp) /\ ~resp.ok)
              => Normalised(error', resp.err, Plain("Failed to load products"))
       /\ \A resp \in EntityResponses :
            /\ (SettleGetProductById(i, resp) /\ ~resp.ok)
                 => Normalised(productError', resp.err,
                               WithId("Failed to load product", inflight[i].id))
            /\ (SettleAddProduct(i, resp) /\ ~resp.ok)
                 => Normalised(productError', resp.err, Plain("Failed to create product"))
            /\ (SettleUpdateProduct(i, resp) /\ ~resp.ok)
                 => Normalised(productError', resp.err,
                               WithId("Failed to update product", inflight[i].id))
       /\ \A resp \in VoidResponses :
            (SettleDeleteProduct(i, resp) /\ ~resp.ok)
              => Normalised(productError', resp.err,
                            WithId("Failed to delete product", inflight[i].id))]_vars

\* the load of the list failed without a connection and the update of product 1
\* was refused with status 500
C30_Witness ==
  /\ inflight = <<>>
  /\ error = [text |-> Plain("Network error. Please check your connection.")]
  /\ productError = [text |-> WithId("Failed to update product", 1), status |-> 500]

-----------------------------------------------------------------------------
(* No operation of the store is retried *)

\* a step in which the caller invokes one of the five remote operations
Invoked ==
  \/ LoadProducts
  \/ \E id \in Ids : GetProductById(id)
  \/ AddProduct
  \/ \E id \in Ids : UpdateProduct(id)
  \/ \E id \in Ids : DeleteProduct(id)

\* a step in which the pending call i settles with a failure
SettlesFailed(i) ==
  \/ \E resp \in ListResponses : ~resp.ok /\ SettleLoadProducts(i, resp)
  \/ \E resp \in EntityResponses :
       /\ ~resp.ok
       /\ \/ SettleGetProductById(i, resp)
          \/ SettleAddProduct(i, resp)
          \/ SettleUpdateProduct(i, resp)
  \/ \E resp \in VoidResponses : ~resp.ok /\ SettleDeleteProduct(i, resp)

\* C31: no operation is retried. Invoking loadProducts, getProductById, addProduct,
\* updateProduct or deleteProduct adds exactly one remote call to the pending
\* ones; a call that settles with a failure leaves the pending calls and is not
\* made again; and a step in which the caller invokes nothing starts no call: the
\* pending calls never grow in it.
C31_NoAutomaticRetry ==
  [][/\ Invoked => /\ Len(inflight') = Len(inflight) + 1
                   /\ SubSeq(inflight', 1, Len(inflight)) = inflight
     /\ \A i \in DOMAIN inflight : SettlesFailed(i) => inflight' = RemoveAt(inflight, i)
     /\ ~Invoked => \/ inflight' = inflight
                    \/ \E i \in DOMAIN inflight : inflight' = RemoveAt(inflight, i)]_vars

\* C31 witness: two operations were invoked, one of them has settled with a
\* failure, and the only pending call is the other one.
C31_Witness ==
  /\ nOps = 2
  /\ Len(inflight) = 1
  /\ inflight[1].kind = "list"
  /\ productError # Null
  /\ loading

-----------------------------------------------------------------------------
(* The single-item state at the moment a load is invoked *)

\* C32: in the step that invokes getProductById(id), for every id and every
\* single-item state before it, productLoading becomes true, productError becomes
\* null and currentProduct becomes null, and the call it makes is still pending.
C32_GetResetsSingleItemState ==
  [][\A id \in Ids :
       GetProductById(id)
         => /\ productLoading' = TRUE
            /\ productError' = Null
            /\ currentProduct' = Null
            /\ inflight' = Append(inflight, [kind |-> "get", id |-> id])]_vars

\* C32 witness: a first load has settled with a product, which became the current
\* one; a second load has been invoked and is pending, and the current product is
\* null again.
C32_Witness ==
  /\ nOps = 2
  /\ Len(inflight) = 1
  /\ log # <<>>
  /\ log[Len(log)].resp.ok
  /\ productLoading
  /\ productError = Null
  /\ currentProduct = Null

-----------------------------------------------------------------------------
(* clear with a key *)

\* C34: clear(k) called with a string key k removes at most the entry for k: every
\* other entry of the cache is there after the call, unchanged.
C34_ClearWithKeyKeepsOthers ==
  [][\A k \in Keys :
       CacheClear(<<k>>)
         => \A other \in DOMAIN cache \ {k} :
              /\ other \in DOMAIN cache'
              /\ cache'[other] = cache[other]]_vars

-----------------------------------------------------------------------------
(* Line-item operations without a selected cart *)

\* a step in which one of the three line-item operations is invoked
LineItemInvoked ==
  \/ \E productId \in CartProductIds : \E qArg \in QtyArgs : AddProductToCart(productId, qArg)
  \/ \E productId \in CartProductIds : RemoveProductFromCart(productId)
  \/ \E productId \in CartProductIds : \E qArg \in QtyArgs \ {<<>>} :
       UpdateProductQuantity(productId, qArg[1])

\* C38: addProductToCart, removeProductFromCart and updateProductQuantity invoked
\* while currentCart is null set cartError to 'No cart selected', make no remote
\* call, and leave carts, currentCart and cartLoading as they were.
C38_NoCartSelected ==
  [][(currentCart = Null /\ LineItemInvoked)
       => /\ cartError' = [text |-> Plain("No cart selected")]
          /\ cartInflight' = cartInflight
          /\ nCartOps' = nCartOps
          /\ UNCHANGED <<carts, currentCart, cartLoading>>]_vars

\* C38 witness: a load of a cart has failed, so no cart is selected; a line-item
\* operation was then invoked: the error is 'No cart selected', nothing is pending
\* and the one call made is the load.
C38_Witness ==
  /\ currentCart = Null
  /\ cartError = [text |-> Plain("No cart selected")]
  /\ nCartOps = 1
  /\ cartInflight = <<>>
  /\ ~cartLoading

-----------------------------------------------------------------------------
(* The loading flags come to rest *)

\* C37: when every pending call settles and the caller invokes finitely many
\* operations, overlapping in any order, each store comes to a state from which
\* its list loading flag and its single-item loading flag are false for ever.
C37_LoadingFlagsComeToRest ==
  <>[](~loading /\ ~productLoading /\ ~cartsLoading /\ ~cartLoading)

\* C37 witness: a list load and a single-item operation overlapped, both have
\* settled, both with a failure, and the two flags are false.
C37_Witness ==
  /\ nOps = 2
  /\ inflight = <<>>
  /\ error # Null
  /\ productError # Null
  /\ ~loading
  /\ ~productLoading

-----------------------------------------------------------------------------
(* The debounced search *)

\* the last call of onSearchChange
LastTyped == log[Len(log)]

\* C33: the search input is debounced. At most one timeout is pending, and it is
\* that of the last call of onSearchChange, due 250 ms after that call. The search
\* term of the store changes in no step but the callback of a timeout; the
\* callback runs 250 ms after the last call, sets the term of that last call
\* (trimmed by setSearchTerm), and leaves no timeout pending, so that one series of
\* calls less than 250 ms apart reaches the store once, with its last term.
C33_SearchIsDebounced ==
  [][/\ Cardinality(timers') <= 1
     /\ \A t \in timers' :
          /\ t.term = log'[Len(log')].term
          /\ t.due = log'[Len(log')].at + DebounceMs
     /\ searchTerm' # searchTerm => SearchTimerFires
     /\ SearchTimerFires
          => /\ searchTerm' = Trim(LastTyped.term)
             /\ now = LastTyped.at + DebounceMs
             /\ timers' = {}]_vars

\* C33 witness: two calls of onSearchChange with different terms, the second less
\* than 250 ms after the first; 250 ms after the second the store holds the
\* second term and no timeout is pending.
C33_Witness ==
  /\ Len(log) = 2
  /\ log[2].at - log[1].at < DebounceMs
  /\ log[2].at > log[1].at
  /\ Trim(log[1].term) # Trim(log[2].term)
  /\ now = log[2].at + DebounceMs
  /\ timers = {}
  /\ searchTerm = Trim(log[2].term)

-----------------------------------------------------------------------------
(* The edit form stays open until it is cancelled or saved *)

\* C35: once the edit form is open it is closed, and the product loaded for an
\* edit is dropped, in no step but onCancelEdit, unless a save has settled
\* without an error since the form was opened.
C35_FormOpenUntilCancelledOrSaved ==
  [][(/\ isEditMode
      /\ \/ ~isEditMode'
         \/ ~isCreating /\ currentProduct # Null /\ currentProduct' = Null)
       => (OnCancelEdit \/ log = <<"saved">>)]_vars

-----------------------------------------------------------------------------
(* The default cart *)

\* the list read of the page has settled
CartListSettled ==
  /\ nCartOps > 0
  /\ ~cartsLoading
  /\ \A k \in DOMAIN cartInflight : cartInflight[k].kind # "loadCarts"

\* C36: once CartComponent is initialised and the list read has settled with a
\* list that is not empty, selectedCartId is the id of the first cart of the list
\* and ngOnInit has called getCartById for that id.
C36_FirstCartIsDefault ==
  (CartListSettled /\ carts # <<>>)
    => /\ selectedCartId = <<carts[1].id>>
       /\ log = <<[op |-> "getCartById", id |-> carts[1].id]>>

====
